---- MODULE Spec2Model ----
(***************************************************************************)
(* A model of easytime: the checked wrappers Duration, Instant and         *)
(* SystemTime around the std::time primitives, and the bit-level           *)
(* conversion try_from_secs from an IEEE-754 seconds value to a Duration.  *)
(*                                                                         *)
(* u32, u64 and u128 values are kept at their full width.  TLC's integers  *)
(* are 32 bits wide, so a wide unsigned integer is a sequence of limbs in  *)
(* base 2^15, least significant first, without leading zero limbs; the     *)
(* operators BAdd, BShl, ... are +, <<, ... on such integers.              *)
(***************************************************************************)
EXTENDS Integers, Sequences, FiniteSets, TLC

\* ------------------------------------------------------------------------
\* Wide unsigned integers

Base == 2^15

Max(i, j) == IF i >= j THEN i ELSE j

Min(i, j) == IF i <= j THEN i ELSE j

RECURSIVE Trim(_)
Trim(s) ==
    IF s = <<>> THEN s
    ELSE IF s[Len(s)] = 0 THEN Trim(SubSeq(s, 1, Len(s) - 1)) ELSE s

\* The wide integer of a TLC integer n >= 0.
RECURSIVE Big(_)
Big(n) == IF n = 0 THEN <<>> ELSE <<n % Base>> \o Big(n \div Base)

Limb(a, i) == IF i <= Len(a) THEN a[i] ELSE 0

RECURSIVE AddFrom(_, _, _, _)
AddFrom(a, b, i, c) ==
    IF i > Max(Len(a), Len(b)) THEN (IF c = 0 THEN <<>> ELSE <<c>>)
    ELSE LET s == Limb(a, i) + Limb(b, i) + c
         IN  <<s % Base>> \o AddFrom(a, b, i + 1, s \div Base)

BAdd(a, b) == AddFrom(a, b, 1, 0)

RECURSIVE LtFrom(_, _, _)
LtFrom(a, b, i) ==
    IF i = 0 THEN FALSE
    ELSE IF a[i] # b[i] THEN a[i] < b[i] ELSE LtFrom(a, b, i - 1)

BLt(a, b) == IF Len(a) # Len(b) THEN Len(a) < Len(b) ELSE LtFrom(a, b, Len(a))

BLe(a, b) == ~BLt(b, a)

\* a - b for a >= b.
RECURSIVE SubFrom(_, _, _, _)
SubFrom(a, b, i, br) ==
    IF i > Len(a) THEN <<>>
    ELSE LET s == Limb(a, i) - Limb(b, i) - br
         IN  IF s < 0 THEN <<s + Base>> \o SubFrom(a, b, i + 1, 1)
             ELSE <<s>> \o SubFrom(a, b, i + 1, 0)

BSub(a, b) == Trim(SubFrom(a, b, 1, 0))

\* a * k for a TLC integer 0 <= k <= Base.
RECURSIVE MulIntFrom(_, _, _, _)
MulIntFrom(a, k, i, c) ==
    IF i > Len(a) THEN (IF c = 0 THEN <<>> ELSE <<c>>)
    ELSE LET p == a[i] * k + c
         IN  <<p % Base>> \o MulIntFrom(a, k, i + 1, p \div Base)

BMulInt(a, k) == IF k = 0 THEN <<>> ELSE MulIntFrom(a, k, 1, 0)

ShlLimbs(a, n) == IF a = <<>> \/ n = 0 THEN a ELSE [i \in 1..n |-> 0] \o a

RECURSIVE MulFrom(_, _, _)
MulFrom(a, b, i) ==
    IF i > Len(b) THEN <<>>
    ELSE BAdd(ShlLimbs(BMulInt(a, b[i]), i - 1), MulFrom(a, b, i + 1))

BMul(a, b) == MulFrom(a, b, 1)

\* a << n and a >> n, without a width.
BShl(a, n) == ShlLimbs(BMulInt(a, 2^(n % 15)), n \div 15)

\* floor(a / k) for a TLC integer 0 < k <= Base.
RECURSIVE DivIntFrom(_, _, _, _)
DivIntFrom(a, k, i, r) ==
    IF i = 0 THEN <<>>
    ELSE LET cur == r * Base + a[i]
         IN  DivIntFrom(a, k, i - 1, cur % k) \o <<cur \div k>>

BDivInt(a, k) == Trim(DivIntFrom(a, k, Len(a), 0))

BShr(a, n) ==
    IF n \div 15 >= Len(a) THEN <<>>
    ELSE BDivInt(SubSeq(a, n \div 15 + 1, Len(a)), 2^(n % 15))

\* a mod 2^n: the cast of a to an unsigned integer of n bits.
BLow(a, n) ==
    IF Len(a) <= n \div 15 THEN a
    ELSE Trim(SubSeq(a, 1, n \div 15) \o <<a[n \div 15 + 1] % 2^(n % 15)>>)

RECURSIVE AndInt(_, _)
AndInt(x, y) ==
    IF x = 0 \/ y = 0 THEN 0
    ELSE (x % 2) * (y % 2) + 2 * AndInt(x \div 2, y \div 2)

\* a & b, and a | b.
BAnd(a, b) == Trim([i \in 1..Min(Len(a), Len(b)) |-> AndInt(a[i], b[i])])

BOr(a, b) ==
    [i \in 1..Max(Len(a), Len(b)) |->
        Limb(a, i) + Limb(b, i) - AndInt(Limb(a, i), Limb(b, i))]

\* Bit j (from 0) of a.
Bit(a, j) == (Limb(a, j \div 15 + 1) \div 2^(j % 15)) % 2

\* The largest digit d < Base with b * d <= r, given b * Base > r.
RECURSIVE DigitFrom(_, _, _, _)
DigitFrom(b, r, d, bit) ==
    IF bit < 0 THEN d
    ELSE IF BLe(BMulInt(b, d + 2^bit), r) THEN DigitFrom(b, r, d + 2^bit, bit - 1)
         ELSE DigitFrom(b, r, d, bit - 1)

\* <<floor(a / b), a mod b>> for b > 0, by long division in base 2^15.
RECURSIVE DivModFrom(_, _, _, _, _)
DivModFrom(a, b, i, q, r) ==
    IF i = 0 THEN <<Trim(q), r>>
    ELSE LET r2 == Trim(<<a[i]>> \o r)
             d  == DigitFrom(b, r2, 0, 14)
         IN  DivModFrom(a, b, i - 1, <<d>> \o q, BSub(r2, BMulInt(b, d)))

BDivMod(a, b) == DivModFrom(a, b, Len(a), <<>>, <<>>)

BDiv(a, b) == BDivMod(a, b)[1]

BRem(a, b) == BDivMod(a, b)[2]

\* The TLC integer of a wide integer below 2^31.
ToInt(a) == Limb(a, 1) + Base * Limb(a, 2) + Base * Base * Limb(a, 3)

\* 2^n as a wide integer, and 2^n - 1.
BPow2(n) == BShl(Big(1), n)

BOnes(n) == BSub(BPow2(n), Big(1))


\* ------------------------------------------------------------------------
\* Option<T>: None is the empty sequence, Some(v) the sequence of v alone.

None == <<>>

Some(v) == <<v>>

IsSome(o) == o # None

\* ------------------------------------------------------------------------
\* core::time::Duration, the primitive the wrapper holds: seconds (u64, a
\* wide integer) and nanoseconds (below NANOS_PER_SEC, a TLC integer).

NANOS_PER_SEC == 1000000000

U32_MAX == BOnes(32)

U64_MAX == BOnes(64)

Dur(secs, nanos) == [secs |-> secs, nanos |-> nanos]

\* time::Duration::new(secs: u64, nanos: u32) carries nanos into secs and
\* panics ("overflow in Duration::new") when the carry overflows u64.
time_Duration_new(secs, nanos) ==
    IF BLt(nanos, Big(NANOS_PER_SEC))
    THEN [panic |-> FALSE, val |-> Dur(secs, ToInt(nanos))]
    ELSE LET carried == BAdd(secs, BDiv(nanos, Big(NANOS_PER_SEC)))
         IN  [panic |-> BLt(U64_MAX, carried),
              val   |-> Dur(BLow(carried, 64),
                            ToInt(BRem(nanos, Big(NANOS_PER_SEC))))]

time_Duration_MAX == Dur(U64_MAX, NANOS_PER_SEC - 1)

time_Duration_from_secs(secs) == Dur(secs, 0)

time_Duration_from_millis(millis) ==
    Dur(BDiv(millis, Big(1000)), ToInt(BRem(millis, Big(1000))) * 1000000)

time_Duration_from_micros(micros) ==
    Dur(BDiv(micros, Big(1000000)), ToInt(BRem(micros, Big(1000000))) * 1000)

time_Duration_from_nanos(nanos) ==
    Dur(BDiv(nanos, Big(NANOS_PER_SEC)), ToInt(BRem(nanos, Big(NANOS_PER_SEC))))

time_Duration_checked_add(lhs, rhs) ==
    LET secs  == BAdd(lhs.secs, rhs.secs)
        nanos == lhs.nanos + rhs.nanos
    IN  IF BLt(U64_MAX, secs) THEN None
        ELSE IF nanos >= NANOS_PER_SEC
             THEN IF BLt(U64_MAX, BAdd(secs, Big(1))) THEN None
                  ELSE Some(Dur(BAdd(secs, Big(1)), nanos - NANOS_PER_SEC))
             ELSE Some(Dur(secs, nanos))

time_Duration_checked_sub(lhs, rhs) ==
    IF BLt(lhs.secs, rhs.secs) THEN None
    ELSE LET secs == BSub(lhs.secs, rhs.secs)
         IN  IF lhs.nanos >= rhs.nanos
             THEN Some(Dur(secs, lhs.nanos - rhs.nanos))
             ELSE IF secs = Big(0) THEN None
                  ELSE Some(Dur(BSub(secs, Big(1)),
                                lhs.nanos + NANOS_PER_SEC - rhs.nanos))

time_Duration_checked_mul(lhs, rhs) ==
    LET total_nanos == BMul(Big(lhs.nanos), rhs)
        extra_secs  == BDiv(total_nanos, Big(NANOS_PER_SEC))
        nanos       == ToInt(BRem(total_nanos, Big(NANOS_PER_SEC)))
        s           == BMul(lhs.secs, rhs)
    IN  IF BLt(U64_MAX, s) THEN None
        ELSE IF BLt(U64_MAX, BAdd(s, extra_secs)) THEN None
             ELSE Some(Dur(BAdd(s, extra_secs), nanos))

time_Duration_checked_div(lhs, rhs) ==
    IF rhs # Big(0)
    THEN LET secs        == BDiv(lhs.secs, rhs)
             extra_secs  == BRem(lhs.secs, rhs)
             nanos       == BDiv(Big(lhs.nanos), rhs)
             extra_nanos == BRem(Big(lhs.nanos), rhs)
             more        == BDiv(BAdd(BMul(extra_secs, Big(NANOS_PER_SEC)),
                                      extra_nanos), rhs)
         IN  Some(Dur(secs, ToInt(BAdd(nanos, more))))
    ELSE None

\* PartialEq and Ord of time::Duration: by seconds, then by nanoseconds.
time_Duration_eq(lhs, rhs) == lhs.secs = rhs.secs /\ lhs.nanos = rhs.nanos

time_Duration_cmp(lhs, rhs) ==
    IF lhs.secs # rhs.secs
    THEN (IF BLt(lhs.secs, rhs.secs) THEN "Less" ELSE "Greater")
    ELSE IF lhs.nanos < rhs.nanos THEN "Less"
         ELSE IF lhs.nanos > rhs.nanos THEN "Greater" ELSE "Equal"

\* ------------------------------------------------------------------------
\* Rust's integer operators at a width of w bits.  In a build with overflow
\* checks an out-of-range shift amount and an overflowing + or * panic;
\* a << silently drops the bits shifted out.

Shl(a, n, w) == BLow(BShl(a, n), w)

ShlFaults(n, w) == n < 0 \/ n >= w

Mul(a, b, w) == BLow(BMul(a, b), w)

MulFaults(a, b, w) == BLe(BPow2(w), BMul(a, b))

Add(a, b, w) == BLow(BAdd(a, b), w)

AddFaults(a, b, w) == BLe(BPow2(w), BAdd(a, b))

\* The outcome of a call: it panicked, or it returned val.
Returned(v) == [panic |-> FALSE, val |-> v]

Panicked == [panic |-> TRUE, val |-> None]

\* ------------------------------------------------------------------------
\* IEEE-754 values, as their bit patterns (wide integers).

IsNaN(bits, mant_bits, exp_bits) ==
    /\ BAnd(BShr(bits, mant_bits), BOnes(exp_bits)) = BOnes(exp_bits)
    /\ BLow(bits, mant_bits) # Big(0)

\* $secs < 0.0 left out: the sign bit is never looked at.
LtZero_unchecked(bits, mant_bits, exp_bits) == FALSE

\* $secs < 0.0: the sign bit is set, and the value is neither NaN nor -0.0.
LtZero(bits, mant_bits, exp_bits) ==
    /\ Bit(bits, mant_bits + exp_bits) = 1
    /\ ~IsNaN(bits, mant_bits, exp_bits)
    /\ BLow(bits, mant_bits + exp_bits) # Big(0)

\* ------------------------------------------------------------------------
\* The rounding decision left out: the candidate is never raised.
add_ns_truncating(nanos_tmp, nanos, nanos_offset, ty) == FALSE

\* Round half up: the candidate is raised whenever the top bit of the
\* remainder is set, a tie with an even candidate included.
add_ns_half_up(nanos_tmp, nanos, nanos_offset, ty) ==
    BAnd(nanos_tmp, Shl(Big(1), nanos_offset - 1, ty)) # Big(0)

\* The rounding decision of try_from_secs, written twice in the macro (once
\* per fractional branch): whether the candidate nanos, the bits of nanos_tmp
\* above nanos_offset, is to be raised by one.  ty is the width of the masks.
add_ns(nanos_tmp, nanos, nanos_offset, ty) ==
    LET rem_mask     == BSub(Shl(Big(1), nanos_offset, ty), Big(1))
        rem_msb_mask == Shl(Big(1), nanos_offset - 1, ty)
        rem          == BAnd(nanos_tmp, rem_mask)
        is_tie       == rem = rem_msb_mask
        is_even      == BAnd(nanos, Big(1)) = Big(0)
        rem_msb      == BAnd(nanos_tmp, rem_msb_mask) = Big(0)
    IN  ~(rem_msb \/ (is_even /\ is_tie))

\* The carry left out: a candidate of 10^9 nanoseconds wraps to 0 and the
\* seconds are kept.
carry_dropped(secs, nanos, mant_bits) ==
    IF nanos # Big(NANOS_PER_SEC) THEN <<secs, nanos>> ELSE <<secs, Big(0)>>

\* The last step of the two fractional branches of try_from_secs: the pair
\* (secs, nanos) handed to time::Duration::new, a rounded nanos of 10^9
\* carried into secs (in the first branch secs is 0, and secs + 1 is 1).
carry(secs, nanos, mant_bits) ==
    IF mant_bits = 23 \/ nanos # Big(NANOS_PER_SEC)
    THEN <<secs, nanos>>
    ELSE <<Add(secs, Big(1), 64), Big(0)>>

\* t of the sub-second branch shifted in a 32-bit type, mant not widened.
scaled_mant_narrow(mant, offset, exp, double_ty) == Shl(mant, offset + exp, 32)

\* t of the sub-second branch shifted one bit too far, in u128.
scaled_mant_doubled(mant, offset, exp, double_ty) ==
    Shl(mant, offset + exp + 1, 128)

\* let t = <$double_ty>::from(mant) << ($offset + exp), of the sub-second
\* branch of try_from_secs.
scaled_mant(mant, offset, exp, double_ty) == Shl(mant, offset + exp, double_ty)

\* macro try_from_secs: the outcome [panic, val] of the conversion of the
\* float with bit pattern bits, val being an Option<time::Duration>.

try_from_secs(bits, mant_bits, exp_bits, offset, bits_ty, double_ty) ==
    LET MIN_EXP   == 1 - (2^exp_bits) \div 2
        MANT_MASK == BSub(Shl(Big(1), mant_bits, bits_ty), Big(1))
        EXP_MASK  == BSub(Shl(Big(1), exp_bits, bits_ty), Big(1))
        mant      == BOr(BAnd(bits, MANT_MASK), BAdd(MANT_MASK, Big(1)))
        exp       == ToInt(BAnd(BShr(bits, mant_bits), EXP_MASK)) + MIN_EXP
    IN
    IF LtZero(bits, mant_bits, exp_bits) THEN Returned(None)
    ELSE IF exp < -31 THEN
        \* the input represents less than 1ns and can not be rounded to it
        LET made == time_Duration_new(Big(0), Big(0))
        IN  IF made.panic THEN Panicked ELSE Returned(Some(made.val))
    ELSE IF exp < 0 THEN
        \* the input is less than 1 second
        LET t            == scaled_mant(mant, offset, exp, double_ty)
            nanos_offset == mant_bits + offset
            nanos_tmp    == Mul(Big(NANOS_PER_SEC), t, 128)
            nanos        == BLow(BShr(nanos_tmp, nanos_offset), 32)
            up           == IF add_ns(nanos_tmp, nanos, nanos_offset, 128)
                            THEN Big(1) ELSE Big(0)
            nanos2       == Add(nanos, up, 32)
            carried      == carry(Big(0), nanos2, mant_bits)
            made         == time_Duration_new(carried[1], carried[2])
        IN  IF \/ ShlFaults(offset + exp, double_ty)
               \/ MulFaults(Big(NANOS_PER_SEC), t, 128)
               \/ ShlFaults(nanos_offset, 128)
               \/ AddFaults(nanos, up, 32)
               \/ made.panic
            THEN Panicked
            ELSE Returned(Some(made.val))
    ELSE IF exp < mant_bits THEN
        LET secs         == BShr(mant, mant_bits - exp)
            t            == BAnd(Shl(mant, exp, bits_ty), MANT_MASK)
            nanos_offset == mant_bits
            nanos_tmp    == Mul(Big(NANOS_PER_SEC), t, double_ty)
            nanos        == BLow(BShr(nanos_tmp, nanos_offset), 32)
            up           == IF add_ns(nanos_tmp, nanos, nanos_offset, double_ty)
                            THEN Big(1) ELSE Big(0)
            nanos2       == Add(nanos, up, 32)
            carried      == carry(secs, nanos2, mant_bits)
            made         == time_Duration_new(carried[1], carried[2])
        IN  IF \/ ShlFaults(mant_bits - exp, bits_ty)
               \/ ShlFaults(exp, bits_ty)
               \/ MulFaults(Big(NANOS_PER_SEC), t, double_ty)
               \/ AddFaults(nanos, up, 32)
               \/ (~(mant_bits = 23 \/ nanos2 # Big(NANOS_PER_SEC))
                      /\ AddFaults(secs, Big(1), 64))
               \/ made.panic
            THEN Panicked
            ELSE Returned(Some(made.val))
    ELSE IF exp < 64 THEN
        \* the input has no fractional part
        LET secs == Shl(mant, exp - mant_bits, 64)
            made == time_Duration_new(secs, Big(0))
        IN  IF ShlFaults(exp - mant_bits, 64) \/ made.panic
            THEN Panicked
            ELSE Returned(Some(made.val))
    ELSE Returned(None)

\* The intermediate values of try_from_secs on a float that is not below
\* zero: the branch taken, every shift executed as <<amount, width of the
\* shifted type>>, t and the product NANOS_PER_SEC * t as the types hold
\* them and as the integers they stand for (t_exact, product_exact), the
\* candidate nanos_tmp >> nanos_offset before the cast to u32, the rounded
\* nanos, and secs with the integer it stands for.
try_from_secs_steps(bits, mant_bits, exp_bits, offset, bits_ty, double_ty) ==
    LET MIN_EXP   == 1 - (2^exp_bits) \div 2
        MANT_MASK == BSub(Shl(Big(1), mant_bits, bits_ty), Big(1))
        EXP_MASK  == BSub(Shl(Big(1), exp_bits, bits_ty), Big(1))
        mant      == BOr(BAnd(bits, MANT_MASK), BAdd(MANT_MASK, Big(1)))
        exp       == ToInt(BAnd(BShr(bits, mant_bits), EXP_MASK)) + MIN_EXP
        none      == [shifts |-> {<<mant_bits, bits_ty>>, <<exp_bits, bits_ty>>},
                      t |-> Big(0), t_exact |-> Big(0),
                      nanos_tmp |-> Big(0), product_exact |-> Big(0),
                      product_ty |-> double_ty,
                      candidate |-> Big(0), nanos |-> Big(0),
                      secs |-> Big(0), secs_exact |-> Big(0)]
    IN
    IF exp < -31 THEN none @@ [branch |-> "tiny"]
    ELSE IF exp < 0 THEN
        LET t            == scaled_mant(mant, offset, exp, double_ty)
            nanos_offset == mant_bits + offset
            nanos_tmp    == Mul(Big(NANOS_PER_SEC), t, 128)
            candidate    == BShr(nanos_tmp, nanos_offset)
            nanos        == BLow(candidate, 32)
            up           == IF add_ns(nanos_tmp, nanos, nanos_offset, 128)
                            THEN Big(1) ELSE Big(0)
        IN  [branch |-> "sub",
             shifts |-> none.shifts \cup
                        {<<offset + exp, double_ty>>, <<nanos_offset, 128>>,
                         <<nanos_offset - 1, 128>>},
             t |-> t, t_exact |-> BShl(mant, offset + exp),
             nanos_tmp |-> nanos_tmp,
             product_exact |-> BMul(Big(NANOS_PER_SEC), t),
             product_ty |-> 128,
             candidate |-> candidate,
             nanos |-> Add(nanos, up, 32),
             secs |-> Big(0), secs_exact |-> Big(0)]
    ELSE IF exp < mant_bits THEN
        LET secs         == BShr(mant, mant_bits - exp)
            t            == BAnd(Shl(mant, exp, bits_ty), MANT_MASK)
            nanos_offset == mant_bits
            nanos_tmp    == Mul(Big(NANOS_PER_SEC), t, double_ty)
            candidate    == BShr(nanos_tmp, nanos_offset)
            nanos        == BLow(candidate, 32)
            up           == IF add_ns(nanos_tmp, nanos, nanos_offset, double_ty)
                            THEN Big(1) ELSE Big(0)
        IN  [branch |-> "frac",
             shifts |-> none.shifts \cup
                        {<<mant_bits - exp, bits_ty>>, <<exp, bits_ty>>,
                         <<nanos_offset, double_ty>>,
                         <<nanos_offset - 1, double_ty>>},
             t |-> t, t_exact |-> BLow(BShl(mant, exp), mant_bits),
             nanos_tmp |-> nanos_tmp,
             product_exact |-> BMul(Big(NANOS_PER_SEC), t),
             product_ty |-> double_ty,
             candidate |-> candidate,
             nanos |-> Add(nanos, up, 32),
             secs |-> secs, secs_exact |-> secs]
    ELSE IF exp < 64 THEN
        [none EXCEPT !.shifts = @ \cup {<<exp - mant_bits, 64>>},
                     !.secs = Shl(mant, exp - mant_bits, 64),
                     !.secs_exact = BShl(mant, exp - mant_bits)]
        @@ [branch |-> "int"]
    ELSE none @@ [branch |-> "none"]

\* The f32 conversion with an offset below 31: offset + exp is negative
\* for exp = -31.
try_from_secs_f32_offset_30(secs) == try_from_secs(secs, 23, 8, 30, 32, 64)

try_from_secs_f32(secs) == try_from_secs(secs, 23, 8, 41, 32, 64)

\* The f64 conversion with the subnormals special-cased as absent.
try_from_secs_f64_no_subnormals(secs) ==
    IF BLow(BShr(secs, 52), 11) = Big(0) /\ BLow(secs, 52) # Big(0)
    THEN Returned(None)
    ELSE try_from_secs(secs, 52, 11, 44, 64, 128)

try_from_secs_f64(secs) == try_from_secs(secs, 52, 11, 44, 64, 128)

\* The bit pattern of the float with the given sign, biased exponent and
\* mantissa field (a wide integer).
F32(sign, e, m) == BAdd(BShl(Big(sign), 31), BAdd(BShl(Big(e), 23), m))

F64(sign, e, m) == BAdd(BShl(Big(sign), 63), BAdd(BShl(Big(e), 52), m))

\* ------------------------------------------------------------------------
\* std::time::Instant and std::time::SystemTime, as on Unix: a Timespec of
\* tv_sec: i64 and tv_nsec below NANOS_PER_SEC.  secs holds tv_sec + 2^63, so
\* that i64::MIN is 0 and i64::MAX is U64_MAX, and the checked i64 +/- u64
\* of checked_add_duration and checked_sub_duration becomes the checked
\* unsigned arithmetic of Duration.

Timespec(tv_sec_biased, tv_nsec) == [secs |-> tv_sec_biased, nanos |-> tv_nsec]

time_SystemTime_UNIX_EPOCH == Timespec(BPow2(63), 0)

time_Instant_checked_add(t, dur) == time_Duration_checked_add(t, dur)

time_Instant_checked_sub(t, dur) == time_Duration_checked_sub(t, dur)

\* Some(t - earlier) when earlier is not later than t, and None otherwise.
time_Instant_checked_duration_since(t, earlier) ==
    time_Duration_checked_sub(t, earlier)

time_SystemTime_checked_add(t, dur) == time_Duration_checked_add(t, dur)

time_SystemTime_checked_sub(t, dur) == time_Duration_checked_sub(t, dur)

\* duration_since(earlier).ok(): Err when earlier is later than t.
time_SystemTime_duration_since_ok(t, earlier) ==
    time_Duration_checked_sub(t, earlier)

\* ------------------------------------------------------------------------
\* utils.rs.  The function argument f is the name of the function passed.

Call(f, a, b) ==
    CASE f = "Duration::checked_add" -> time_Duration_checked_add(a, b)
      [] f = "Duration::checked_sub" -> time_Duration_checked_sub(a, b)
      [] f = "Instant::checked_add" -> time_Instant_checked_add(a, b)
      [] f = "Instant::checked_sub" -> time_Instant_checked_sub(a, b)
      [] f = "Instant::checked_duration_since" ->
             time_Instant_checked_duration_since(a, b)
      [] f = "SystemTime::checked_add" -> time_SystemTime_checked_add(a, b)
      [] f = "SystemTime::checked_sub" -> time_SystemTime_checked_sub(a, b)
      [] f = "SystemTime::duration_since" ->
             time_SystemTime_duration_since_ok(a, b)

\* x.or(y) for an absent operand: the present operand is passed through.
pair_and_then_or(x, y, f) ==
    IF IsSome(x) /\ IsSome(y) THEN Call(f, x[1], y[1])
    ELSE IF IsSome(x) THEN x ELSE y

pair_and_then(x, y, f) ==
    IF IsSome(x) /\ IsSome(y) THEN Call(f, x[1], y[1]) ELSE None

\* ------------------------------------------------------------------------
\* duration.rs: Duration(Option<time::Duration>), as the Option it holds.

Duration_NONE == None

Duration_ZERO == Some(time_Duration_from_nanos(Big(0)))

Duration_MAX == Some(time_Duration_MAX)

\* Duration::new as Some(time::Duration::new(secs, nanos)): std's constructor
\* panics when the carry overflows.
Duration_new_unchecked(secs, nanos) ==
    LET made == time_Duration_new(secs, nanos)
    IN  IF made.panic THEN Panicked ELSE Returned(Some(made.val))

\* Duration::new without the carry of nanos into secs.
Duration_new_no_carry(secs, nanos) ==
    Returned(Some(Dur(secs, ToInt(BRem(nanos, Big(NANOS_PER_SEC))))))

\* The outcome [panic, val] of Duration::new(secs: u64, nanos: u32).
Duration_new(secs, nanos) ==
    LET s == time_Duration_from_secs(secs)
        n == time_Duration_from_nanos(nanos)
    IN  Returned(time_Duration_checked_add(s, n))

Duration_from_secs(secs) == Some(time_Duration_from_secs(secs))

\* from_millis that drops the milliseconds below a second.
Duration_from_millis_truncated(millis) ==
    Some(time_Duration_from_secs(BDiv(millis, Big(1000))))

Duration_from_millis(millis) == Some(time_Duration_from_millis(millis))

Duration_from_micros(micros) == Some(time_Duration_from_micros(micros))

Duration_from_nanos(nanos) == Some(time_Duration_from_nanos(nanos))

Duration_default == Some(Dur(Big(0), 0))

\* as_secs of the inner value or of its default: Some(0) for an absent self.
Duration_as_secs_or_default(self) ==
    IF IsSome(self) THEN Some(self[1].secs) ELSE Some(Big(0))

Duration_as_secs(self) == IF IsSome(self) THEN Some(self[1].secs) ELSE None

Duration_subsec_nanos(self) == IF IsSome(self) THEN Some(self[1].nanos) ELSE None

Duration_is_some(self) == IsSome(self)

Duration_is_none(self) == ~Duration_is_some(self)

Duration_is_zero(self) ==
    /\ Duration_as_secs(self) = Some(Big(0))
    /\ Duration_subsec_nanos(self) = Some(0)

\* The outcome [panic, val] of from_secs_f64 and from_secs_f32 on a bit pattern.
Duration_from_secs_f64(secs) == try_from_secs_f64(secs)

Duration_from_secs_f32(secs) == try_from_secs_f32(secs)

\* mul_f64, mul_f32, div_f64 and div_f32 convert self to float seconds,
\* scale by rhs in the host's float arithmetic and convert back.  scaled is
\* the bit pattern of the host's product or quotient.
Duration_mul_f64(self, scaled) ==
    IF IsSome(self) THEN Duration_from_secs_f64(scaled) ELSE Returned(Duration_NONE)

Duration_mul_f32(self, scaled) ==
    IF IsSome(self) THEN Duration_from_secs_f32(scaled) ELSE Returned(Duration_NONE)

Duration_div_f64(self, scaled) ==
    IF IsSome(self) THEN Duration_from_secs_f64(scaled) ELSE Returned(Duration_NONE)

Duration_div_f32(self, scaled) ==
    IF IsSome(self) THEN Duration_from_secs_f32(scaled) ELSE Returned(Duration_NONE)

\* + as a saturating addition: Duration::MAX on overflow.
Duration_add_saturating(self, rhs) ==
    IF IsSome(self) /\ IsSome(rhs)
    THEN LET sum == time_Duration_checked_add(self[1], rhs[1])
         IN  IF IsSome(sum) THEN sum ELSE Some(time_Duration_MAX)
    ELSE None

Duration_add(self, rhs) == pair_and_then(self, rhs, "Duration::checked_add")

Duration_sub(self, rhs) == pair_and_then(self, rhs, "Duration::checked_sub")

\* * on the two fields apart: the nanoseconds' product is not carried.
Duration_mul_no_carry(self, rhs) ==
    IF IsSome(self) /\ BLe(BMul(self[1].secs, rhs), U64_MAX)
    THEN Some(Dur(BMul(self[1].secs, rhs),
                  ToInt(BRem(BMul(Big(self[1].nanos), rhs), Big(NANOS_PER_SEC)))))
    ELSE None

Duration_mul(self, rhs) ==
    IF IsSome(self) THEN time_Duration_checked_mul(self[1], rhs) ELSE None

\* impl Mul<Duration> for u32
u32_mul(self, rhs) == Duration_mul(rhs, self)

\* / with a zero divisor taken as a division by nothing: self is returned.
Duration_div_or_self(self, rhs) ==
    IF IsSome(self) /\ rhs # Big(0) THEN time_Duration_checked_div(self[1], rhs)
    ELSE self

Duration_div(self, rhs) ==
    IF IsSome(self) THEN time_Duration_checked_div(self[1], rhs) ELSE None

\* impl AddAssign / SubAssign / MulAssign<u32> / DivAssign<u32> for
\* Duration: the value self holds afterwards, *self = *self op rhs.
Duration_add_assign(self, rhs) == Duration_add(self, rhs)

\* -= that leaves self as it was when the difference is absent.
Duration_sub_assign_or_self(self, rhs) ==
    IF IsSome(Duration_sub(self, rhs)) THEN Duration_sub(self, rhs) ELSE self

Duration_sub_assign(self, rhs) == Duration_sub(self, rhs)

Duration_mul_assign(self, rhs) == Duration_mul(self, rhs)

Duration_div_assign(self, rhs) == Duration_div(self, rhs)

\* Result<T, TryFromTimeError>
Ok(v) == <<"Ok", v>>

Err(e) == <<"Err", e>>

\* From<time::Duration> that keeps the whole seconds only.
Duration_from_whole_secs(dur) == Some(Dur(dur.secs, 0))

\* impl From<time::Duration> for Duration
Duration_from(dur) == Some(dur)

\* TryFrom<Duration> that turns an absent value into Ok of the zero duration.
Duration_try_from_or_default(dur) ==
    IF IsSome(dur) THEN Ok(dur[1]) ELSE Ok(Dur(Big(0), 0))

\* impl TryFrom<Duration> for time::Duration: into_inner().ok_or(..)
Duration_try_from(dur) ==
    IF IsSome(dur) THEN Ok(dur[1]) ELSE Err("TryFromTimeError")

\* #[derive(PartialEq, Eq)] on Duration(Option<time::Duration>): Option's
\* equality, None equal to None alone.
Duration_eq(self, other) ==
    IF IsSome(self) /\ IsSome(other) THEN time_Duration_eq(self[1], other[1])
    ELSE IsSome(self) = IsSome(other)

\* #[derive(PartialOrd, Ord)]: Option's order, None below every Some.
Duration_partial_cmp(self, other) ==
    IF IsSome(self) /\ IsSome(other)
    THEN Some(time_Duration_cmp(self[1], other[1]))
    ELSE IF IsSome(other) THEN Some("Less")
         ELSE IF IsSome(self) THEN Some("Greater") ELSE Some("Equal")

\* self.0 == Some(*other) with the default of an absent self taken for it.
Duration_eq_raw_or_default(self, other) ==
    time_Duration_eq(IF IsSome(self) THEN self[1] ELSE Dur(Big(0), 0), other)

\* impl PartialEq<time::Duration> for Duration, and
\* impl PartialEq<Duration> for time::Duration
Duration_eq_raw(self, other) ==
    IF IsSome(self) THEN time_Duration_eq(self[1], other) ELSE FALSE

raw_eq_Duration(self, other) == Duration_eq_raw(other, self)

\* partial_cmp with the default of an absent self taken for it.
Duration_partial_cmp_raw_or_default(self, other) ==
    Some(time_Duration_cmp(IF IsSome(self) THEN self[1] ELSE Dur(Big(0), 0), other))

\* impl PartialOrd<time::Duration> for Duration, and
\* impl PartialOrd<Duration> for time::Duration
Duration_partial_cmp_raw(self, other) ==
    IF IsSome(self) THEN Some(time_Duration_cmp(self[1], other)) ELSE None

\* time::Duration against Duration delegating as eq does, other.partial_cmp(
\* self): the ordering of the wrapper against the primitive.
raw_partial_cmp_Duration_delegating(self, other) ==
    Duration_partial_cmp_raw(other, self)

raw_partial_cmp_Duration(self, other) ==
    IF IsSome(other) THEN Some(time_Duration_cmp(self, other[1])) ELSE None

\* <, <=, > and >= of PartialOrd, from the result of partial_cmp.
lt(ordering) == ordering = Some("Less")

le(ordering) == ordering \in {Some("Less"), Some("Equal")}

gt(ordering) == ordering = Some("Greater")

ge(ordering) == ordering \in {Some("Greater"), Some("Equal")}

\* ------------------------------------------------------------------------
\* instant.rs and system_time.rs

\* Instant::now that keeps only the sub-second part of the reading.
Instant_now_subsec(reading) == Some(Timespec(BPow2(63), reading.nanos))

\* Instant::now, given the reading time::Instant::now() returns.
Instant_now(reading) == Some(reading)

\* #[derive(PartialOrd, Ord)] on Instant(Option<time::Instant>)
Instant_partial_cmp(self, other) ==
    IF IsSome(self) /\ IsSome(other)
    THEN Some(time_Duration_cmp(self[1], other[1]))
    ELSE IF IsSome(self) THEN Some("Greater")
    ELSE IF IsSome(other) THEN Some("Less")
    ELSE Some("Equal")

Instant_NONE == None

\* impl PartialEq<time::Instant> for Instant
Instant_eq_raw(self, other) ==
    IF IsSome(self) THEN time_Duration_eq(self[1], other) ELSE FALSE

\* impl PartialEq<Instant> for time::Instant
raw_eq_Instant(self, other) == Instant_eq_raw(other, self)

\* impl PartialOrd<time::Instant> for Instant
Instant_partial_cmp_raw(self, other) ==
    IF IsSome(self) THEN Some(time_Duration_cmp(self[1], other)) ELSE None

\* impl PartialOrd<Instant> for time::Instant
raw_partial_cmp_Instant(self, other) ==
    IF IsSome(other) THEN Some(time_Duration_cmp(self, other[1])) ELSE None

\* + that keeps self when the sum overflows.
Instant_add_or_self(self, other) ==
    IF IsSome(self) /\ IsSome(other)
    THEN LET sum == time_Instant_checked_add(self[1], other[1])
         IN  IF IsSome(sum) THEN sum ELSE self
    ELSE None

Instant_add(self, other) == pair_and_then(self, other, "Instant::checked_add")

\* impl From<time::Instant> for Instant
Instant_from(instant) == Some(instant)

\* impl TryFrom<Instant> for time::Instant
Instant_try_from(instant) ==
    IF IsSome(instant) THEN Ok(instant[1]) ELSE Err("TryFromTimeError")

\* impl AddAssign<Duration> for Instant: the value self holds afterwards.
Instant_add_assign(self, other) == Instant_add(self, other)

\* - that takes the whole seconds of other only.
Instant_sub_whole_secs(self, other) ==
    IF IsSome(self) /\ IsSome(other)
    THEN time_Instant_checked_sub(self[1], Dur(other[1].secs, 0))
    ELSE None

Instant_sub(self, other) == pair_and_then(self, other, "Instant::checked_sub")

\* impl SubAssign<Duration> for Instant
Instant_sub_assign(self, other) == Instant_sub(self, other)

Instant_duration_since(self, earlier) ==
    pair_and_then(self, earlier, "Instant::checked_duration_since")

\* Instant - Instant with the operands taken in the other order.
Instant_sub_Instant_reversed(self, other) == Instant_duration_since(other, self)

\* impl Sub for Instant
Instant_sub_Instant(self, other) == Instant_duration_since(self, other)

SystemTime_UNIX_EPOCH == Some(time_SystemTime_UNIX_EPOCH)

\* + that drops the carry of the nanoseconds into the seconds.
SystemTime_add_no_carry(self, other) ==
    IF IsSome(self) /\ IsSome(other)
    THEN LET sum == time_SystemTime_checked_add(self[1], Dur(other[1].secs, 0))
         IN  IF IsSome(sum)
             THEN Some(Timespec(sum[1].secs,
                                (sum[1].nanos + other[1].nanos) % NANOS_PER_SEC))
             ELSE None
    ELSE None

SystemTime_add(self, other) ==
    pair_and_then(self, other, "SystemTime::checked_add")

\* impl From<time::SystemTime> for SystemTime
SystemTime_from(time) == Some(time)

\* impl TryFrom<SystemTime> for time::SystemTime
SystemTime_try_from(system_time) ==
    IF IsSome(system_time) THEN Ok(system_time[1]) ELSE Err("TryFromTimeError")

\* impl AddAssign<Duration> for SystemTime
SystemTime_add_assign(self, other) == SystemTime_add(self, other)

SystemTime_sub(self, other) ==
    pair_and_then(self, other, "SystemTime::checked_sub")

\* impl SubAssign<Duration> for SystemTime
SystemTime_sub_assign(self, other) == SystemTime_sub(self, other)

\* duration_since clamped as Instant's is in std: zero when earlier is later.
SystemTime_duration_since_saturating(self, earlier) ==
    IF IsSome(self) /\ IsSome(earlier)
    THEN LET since == time_SystemTime_duration_since_ok(self[1], earlier[1])
         IN  IF IsSome(since) THEN since ELSE Some(Dur(Big(0), 0))
    ELSE None

SystemTime_duration_since(self, earlier) ==
    pair_and_then(self, earlier, "SystemTime::duration_since")

\* impl Sub for SystemTime
SystemTime_sub_SystemTime(self, other) == SystemTime_duration_since(self, other)

\* ------------------------------------------------------------------------
\* The program: it calls a constructor on drawn inputs and then applies a
\* chain of at most MaxOps operators to the value, each operator's other
\* operand drawn from a pool.

\* The longest chain of operators applied to a constructed value.
MaxOps == 1

SecsPool == {Big(0), Big(1), Big(2), BSub(U64_MAX, Big(1)), U64_MAX}

NanosPool ==
    {Big(0), Big(1), Big(500000001), Big(NANOS_PER_SEC - 1), Big(NANOS_PER_SEC),
     U32_MAX}

U64Pool == {Big(0), Big(10), Big(2569), Big(4000), Big(1000000123), U64_MAX}

U32Pool == {Big(0), Big(1), Big(2), Big(3), Big(4), U32_MAX}

DurPool ==
    {Duration_NONE, Duration_new(Big(0), Big(1)).val,
     Duration_new(Big(1), Big(0)).val, Duration_new(Big(1), Big(1)).val,
     Duration_from_secs(Big(4)), Duration_from_secs(U64_MAX), Duration_MAX}

\* 0.0, -0.0, the least subnormal, 2.7, the largest f64 below 1.0,
\* 1 + 1/1024 (a tie), the largest f64 below 2^64, 2^64, -1.0, +infinity and
\* a NaN.
F64Pool ==
    {F64(0, 0, Big(0)), F64(1, 0, Big(0)), F64(0, 0, Big(1)),
     F64(0, 1024, BAdd(BShl(Big(93952409), 24), Big(10066330))),
     F64(0, 1022, BOnes(52)),
     F64(0, 1023, BPow2(42)), F64(0, 1086, BOnes(52)), F64(0, 1087, Big(0)),
     F64(1, 1023, Big(0)), F64(0, 2047, Big(0)), F64(0, 2047, Big(1))}

\* 0.0, 2.7, 1 + 1/1024 (a tie), the largest f32 below 2^64, 2^64, -1.0,
\* -infinity and a NaN.
F32Pool ==
    {F32(0, 0, Big(0)), F32(0, 128, Big(2936013)), F32(0, 127, BPow2(13)),
     F32(0, 190, BOnes(23)), F32(0, 191, Big(0)), F32(1, 127, Big(0)),
     F32(1, 255, Big(0)), F32(0, 255, BPow2(22))}

\* time::Duration values compared with a wrapper.
RawPool == {Dur(Big(0), 0), Dur(Big(1), 0), time_Duration_MAX}

\* What the host's float arithmetic may return for rhs * secs and secs / rhs
\* in mul_f64, div_f64, mul_f32 and div_f32: 2.7, 2^64, -1.0 and a NaN.
ScaledF64Pool ==
    {F64(0, 1024, BAdd(BShl(Big(93952409), 24), Big(10066330))),
     F64(0, 1087, Big(0)), F64(1, 1023, Big(0)), F64(0, 2047, Big(1))}

ScaledF32Pool ==
    {F32(0, 128, Big(2936013)), F32(0, 191, Big(0)), F32(1, 127, Big(0)),
     F32(0, 255, BPow2(22))}

\* Readings of the monotonic clock and of the wall clock.
InstantNowPool == {Timespec(BAdd(BPow2(63), Big(1000)), 5)}

SystemTimeNowPool == {Timespec(BAdd(BPow2(63), Big(1700000000)), 5)}

InstantPool ==
    {Instant_NONE} \cup {Some(t) : t \in InstantNowPool}
        \cup {Some(Timespec(BAdd(t.secs, Big(1)), t.nanos)) : t \in InstantNowPool}

SystemTimePool ==
    {None, SystemTime_UNIX_EPOCH} \cup {Some(t) : t \in SystemTimeNowPool}
        \cup {Some(Timespec(BAdd(t.secs, Big(1)), t.nanos)) : t \in SystemTimeNowPool}
        \cup {Some(Timespec(BSub(t.secs, Big(1)), t.nanos)) : t \in SystemTimeNowPool}

VARIABLES
    pc,     \* "call": a constructor is about to be called; "value": cur is set
    cur,    \* the value computed: [kind, val], val the Option the wrapper holds
    op,     \* the last call: its name, its wrapper operands and scalar inputs
    panic,  \* the last call panicked
    steps,  \* operators applied to the constructed value
    clock,  \* the host's monotonic clock, in ticks
    thread  \* each thread of the monotonicity test: [pc, old, new]

vars == <<pc, cur, op, panic, steps, clock, thread>>

\* The threads that call Instant::now() in a loop.
NThreads == 2

Threads == 1..NThreads

\* No thread is running: the clock and the threads are left alone.
NoThreads ==
    /\ clock = 0
    /\ thread = [t \in Threads |-> [pc |-> "done", old |-> None, new |-> None]]

Call0(name, n, m) == [name |-> name, args |-> <<>>, n |-> n, m |-> m]

ConstructorCalls ==
    {Call0("new", secs, nanos) : secs \in SecsPool, nanos \in NanosPool}
    \cup {Call0(c, v, Big(0)) :
            c \in {"from_secs", "from_millis", "from_micros", "from_nanos"},
            v \in U64Pool}
    \cup {Call0("from_secs_f64", b, Big(0)) : b \in F64Pool}
    \cup {Call0("from_secs_f32", b, Big(0)) : b \in F32Pool}
    \cup {Call0(c, Big(0), Big(0)) :
            c \in {"Duration::NONE", "Duration::ZERO", "Duration::MAX",
                   "Duration::default", "Instant::NONE", "Instant::now",
                   "SystemTime::UNIX_EPOCH", "SystemTime::now"}}
    \cup {[name |-> "Duration::from", args |-> <<p>>, n |-> Big(0), m |-> Big(0)] :
            p \in RawPool}
    \cup {[name |-> "Instant::from", args |-> <<p>>, n |-> Big(0), m |-> Big(0)] :
            p \in InstantNowPool}
    \cup {[name |-> "SystemTime::from", args |-> <<p>>, n |-> Big(0), m |-> Big(0)] :
            p \in SystemTimeNowPool \cup {time_SystemTime_UNIX_EPOCH}}

Init ==
    /\ pc = "call"
    /\ cur = [kind |-> "Duration", val |-> None]
    /\ op \in ConstructorCalls
    /\ panic = FALSE
    /\ steps = 0
    /\ NoThreads

\* A constructor returns (or panics).
Construct(name, kind, out) ==
    /\ pc = "call"
    /\ op.name = name
    /\ pc' = "value"
    /\ cur' = [kind |-> kind, val |-> out.val]
    /\ panic' = out.panic
    /\ UNCHANGED <<op, steps, clock, thread>>

\* An operator is applied to cur, or to cur and a pool value.
Apply(name, kind, out, args, n) ==
    /\ pc = "value"
    /\ ~panic
    /\ steps < MaxOps
    /\ cur' = [kind |-> kind, val |-> out.val]
    /\ op' = [name |-> name, args |-> args, n |-> n, m |-> Big(0)]
    /\ panic' = out.panic
    /\ steps' = steps + 1
    /\ UNCHANGED <<pc, clock, thread>>

New == Construct("new", "Duration", Duration_new(op.n, op.m))

FromSecs == Construct("from_secs", "Duration", Returned(Duration_from_secs(op.n)))

FromMillis ==
    Construct("from_millis", "Duration", Returned(Duration_from_millis(op.n)))

FromMicros ==
    Construct("from_micros", "Duration", Returned(Duration_from_micros(op.n)))

FromNanos ==
    Construct("from_nanos", "Duration", Returned(Duration_from_nanos(op.n)))

FromSecsF64 == Construct("from_secs_f64", "Duration", Duration_from_secs_f64(op.n))

FromSecsF32 == Construct("from_secs_f32", "Duration", Duration_from_secs_f32(op.n))

DurationConst ==
    \/ Construct("Duration::NONE", "Duration", Returned(Duration_NONE))
    \/ Construct("Duration::ZERO", "Duration", Returned(Duration_ZERO))
    \/ Construct("Duration::MAX", "Duration", Returned(Duration_MAX))
    \/ Construct("Duration::default", "Duration", Returned(Duration_default))

InstantNow ==
    \E t \in InstantNowPool : Construct("Instant::now", "Instant", Returned(Some(t)))

SystemTimeNow ==
    \E t \in SystemTimeNowPool :
        Construct("SystemTime::now", "SystemTime", Returned(Some(t)))

TimeConst ==
    \/ Construct("Instant::NONE", "Instant", Returned(Instant_NONE))
    \/ Construct("SystemTime::UNIX_EPOCH", "SystemTime",
                 Returned(SystemTime_UNIX_EPOCH))

\* Wrapper::from(p), p held in op.args
From ==
    \/ Construct("Duration::from", "Duration", Returned(Duration_from(op.args[1])))
    \/ Construct("Instant::from", "Instant", Returned(Instant_from(op.args[1])))
    \/ Construct("SystemTime::from", "SystemTime",
                 Returned(SystemTime_from(op.args[1])))

IsDuration == cur.kind = "Duration"

IsInstant == cur.kind = "Instant"

IsSystemTime == cur.kind = "SystemTime"

\* cur + rhs, and lhs + cur
DurationAdd ==
    /\ IsDuration
    /\ \E p \in DurPool :
        \/ Apply("add", "Duration", Returned(Duration_add(cur.val, p)),
                 <<cur.val, p>>, Big(0))
        \/ Apply("add", "Duration", Returned(Duration_add(p, cur.val)),
                 <<p, cur.val>>, Big(0))

DurationSub ==
    /\ IsDuration
    /\ \E p \in DurPool :
        \/ Apply("sub", "Duration", Returned(Duration_sub(cur.val, p)),
                 <<cur.val, p>>, Big(0))
        \/ Apply("sub", "Duration", Returned(Duration_sub(p, cur.val)),
                 <<p, cur.val>>, Big(0))

\* cur * n, and n * cur
DurationMul ==
    /\ IsDuration
    /\ \E n \in U32Pool :
        \/ Apply("mul", "Duration", Returned(Duration_mul(cur.val, n)),
                 <<cur.val>>, n)
        \/ Apply("u32_mul", "Duration", Returned(u32_mul(n, cur.val)),
                 <<cur.val>>, n)

DurationDiv ==
    /\ IsDuration
    /\ \E n \in U32Pool :
        Apply("div", "Duration", Returned(Duration_div(cur.val, n)), <<cur.val>>, n)

DurationMulF64 ==
    /\ IsDuration
    /\ \E scaled \in ScaledF64Pool :
        Apply("mul_f64", "Duration", Duration_mul_f64(cur.val, scaled),
              <<cur.val>>, scaled)

DurationDivF64 ==
    /\ IsDuration
    /\ \E scaled \in ScaledF64Pool :
        Apply("div_f64", "Duration", Duration_div_f64(cur.val, scaled),
              <<cur.val>>, scaled)

DurationMulF32 ==
    /\ IsDuration
    /\ \E scaled \in ScaledF32Pool :
        Apply("mul_f32", "Duration", Duration_mul_f32(cur.val, scaled),
              <<cur.val>>, scaled)

DurationDivF32 ==
    /\ IsDuration
    /\ \E scaled \in ScaledF32Pool :
        Apply("div_f32", "Duration", Duration_div_f32(cur.val, scaled),
              <<cur.val>>, scaled)

\* cur == p and p == cur, for a wrapper p and for a time::Duration p (held
\* in op.args as Some(p))
DurationEq ==
    /\ IsDuration
    /\ \/ \E p \in DurPool :
            \/ Apply("eq", "bool", Returned(Some(Duration_eq(cur.val, p))),
                     <<cur.val, p>>, Big(0))
            \/ Apply("eq", "bool", Returned(Some(Duration_eq(p, cur.val))),
                     <<p, cur.val>>, Big(0))
       \/ \E p \in RawPool :
            \/ Apply("eq_raw", "bool", Returned(Some(Duration_eq_raw(cur.val, p))),
                     <<cur.val, Some(p)>>, Big(0))
            \/ Apply("raw_eq", "bool", Returned(Some(raw_eq_Duration(p, cur.val))),
                     <<Some(p), cur.val>>, Big(0))

DurationPartialCmp ==
    /\ IsDuration
    /\ \/ \E p \in DurPool :
            \/ Apply("partial_cmp", "Option<Ordering>",
                     Returned(Duration_partial_cmp(cur.val, p)),
                     <<cur.val, p>>, Big(0))
            \/ Apply("partial_cmp", "Option<Ordering>",
                     Returned(Duration_partial_cmp(p, cur.val)),
                     <<p, cur.val>>, Big(0))
       \/ \E p \in RawPool :
            \/ Apply("partial_cmp_raw", "Option<Ordering>",
                     Returned(Duration_partial_cmp_raw(cur.val, p)),
                     <<cur.val, Some(p)>>, Big(0))
            \/ Apply("raw_partial_cmp", "Option<Ordering>",
                     Returned(raw_partial_cmp_Duration(p, cur.val)),
                     <<Some(p), cur.val>>, Big(0))

\* cur == p, p == cur, cur.partial_cmp(p) and p.partial_cmp(cur) for an
\* Instant cur and a time::Instant p: a reading, one a second later and one
\* earlier in the same second
InstantCmp ==
    /\ IsInstant
    /\ \E t \in InstantNowPool :
        \E p \in {t, Timespec(BAdd(t.secs, Big(1)), t.nanos), Timespec(t.secs, 0)} :
            \/ Apply("Instant::eq_raw", "bool",
                     Returned(Some(Instant_eq_raw(cur.val, p))),
                     <<cur.val, Some(p)>>, Big(0))
            \/ Apply("Instant::raw_eq", "bool",
                     Returned(Some(raw_eq_Instant(p, cur.val))),
                     <<Some(p), cur.val>>, Big(0))
            \/ Apply("Instant::partial_cmp_raw", "Option<Ordering>",
                     Returned(Instant_partial_cmp_raw(cur.val, p)),
                     <<cur.val, Some(p)>>, Big(0))
            \/ Apply("Instant::raw_partial_cmp", "Option<Ordering>",
                     Returned(raw_partial_cmp_Instant(p, cur.val)),
                     <<Some(p), cur.val>>, Big(0))

\* time::Duration::try_from(cur), time::Instant::try_from(cur) and
\* time::SystemTime::try_from(cur)
TryFrom ==
    \/ /\ IsDuration
       /\ Apply("try_from", "Result<time::Duration>",
                Returned(Duration_try_from(cur.val)), <<cur.val>>, Big(0))
    \/ /\ IsInstant
       /\ Apply("try_from", "Result<time::Instant>",
                Returned(Instant_try_from(cur.val)), <<cur.val>>, Big(0))
    \/ /\ IsSystemTime
       /\ Apply("try_from", "Result<time::SystemTime>",
                Returned(SystemTime_try_from(cur.val)), <<cur.val>>, Big(0))

\* cur + dur for an Instant cur, and t + cur for a Duration cur
InstantAdd ==
    \/ /\ IsInstant
       /\ \E p \in DurPool :
            Apply("Instant::add", "Instant", Returned(Instant_add(cur.val, p)),
                  <<cur.val, p>>, Big(0))
    \/ /\ IsDuration
       /\ \E t \in InstantPool :
            Apply("Instant::add", "Instant", Returned(Instant_add(t, cur.val)),
                  <<t, cur.val>>, Big(0))

InstantSub ==
    \/ /\ IsInstant
       /\ \E p \in DurPool :
            Apply("Instant::sub", "Instant", Returned(Instant_sub(cur.val, p)),
                  <<cur.val, p>>, Big(0))
    \/ /\ IsDuration
       /\ \E t \in InstantPool :
            Apply("Instant::sub", "Instant", Returned(Instant_sub(t, cur.val)),
                  <<t, cur.val>>, Big(0))

InstantDurationSince ==
    /\ IsInstant
    /\ \E t \in InstantPool :
        \/ Apply("Instant::duration_since", "Duration",
                 Returned(Instant_duration_since(cur.val, t)), <<cur.val, t>>, Big(0))
        \/ Apply("Instant::duration_since", "Duration",
                 Returned(Instant_duration_since(t, cur.val)), <<t, cur.val>>, Big(0))

InstantSubInstant ==
    /\ IsInstant
    /\ \E t \in InstantPool :
        \/ Apply("Instant::sub_Instant", "Duration",
                 Returned(Instant_sub_Instant(cur.val, t)), <<cur.val, t>>, Big(0))
        \/ Apply("Instant::sub_Instant", "Duration",
                 Returned(Instant_sub_Instant(t, cur.val)), <<t, cur.val>>, Big(0))

SystemTimeAdd ==
    \/ /\ IsSystemTime
       /\ \E p \in DurPool :
            Apply("SystemTime::add", "SystemTime",
                  Returned(SystemTime_add(cur.val, p)), <<cur.val, p>>, Big(0))
    \/ /\ IsDuration
       /\ \E t \in SystemTimePool :
            Apply("SystemTime::add", "SystemTime",
                  Returned(SystemTime_add(t, cur.val)), <<t, cur.val>>, Big(0))

SystemTimeSub ==
    \/ /\ IsSystemTime
       /\ \E p \in DurPool :
            Apply("SystemTime::sub", "SystemTime",
                  Returned(SystemTime_sub(cur.val, p)), <<cur.val, p>>, Big(0))
    \/ /\ IsDuration
       /\ \E t \in SystemTimePool :
            Apply("SystemTime::sub", "SystemTime",
                  Returned(SystemTime_sub(t, cur.val)), <<t, cur.val>>, Big(0))

SystemTimeDurationSince ==
    /\ IsSystemTime
    /\ \E t \in SystemTimePool :
        \/ Apply("SystemTime::duration_since", "Duration",
                 Returned(SystemTime_duration_since(cur.val, t)),
                 <<cur.val, t>>, Big(0))
        \/ Apply("SystemTime::duration_since", "Duration",
                 Returned(SystemTime_duration_since(t, cur.val)),
                 <<t, cur.val>>, Big(0))

SystemTimeSubSystemTime ==
    /\ IsSystemTime
    /\ \E t \in SystemTimePool :
        \/ Apply("SystemTime::sub_SystemTime", "Duration",
                 Returned(SystemTime_sub_SystemTime(cur.val, t)),
                 <<cur.val, t>>, Big(0))
        \/ Apply("SystemTime::sub_SystemTime", "Duration",
                 Returned(SystemTime_sub_SystemTime(t, cur.val)),
                 <<t, cur.val>>, Big(0))

Next ==
    \/ New \/ FromSecs \/ FromMillis \/ FromMicros \/ FromNanos
    \/ FromSecsF64 \/ FromSecsF32 \/ DurationConst
    \/ InstantNow \/ SystemTimeNow \/ TimeConst \/ From
    \/ DurationAdd \/ DurationSub \/ DurationMul \/ DurationDiv
    \/ DurationMulF64 \/ DurationDivF64 \/ DurationMulF32 \/ DurationDivF32
    \/ DurationEq \/ DurationPartialCmp
    \/ InstantAdd \/ InstantSub \/ InstantDurationSince \/ InstantSubInstant
    \/ SystemTimeAdd \/ SystemTimeSub \/ SystemTimeDurationSince
    \/ SystemTimeSubSystemTime
    \/ TryFrom \/ InstantCmp

Spec == Init /\ [][Next]_vars

\* ------------------------------------------------------------------------
\* The conversion alone, on a family of bit patterns: every exponent from
\* below the 1 ns threshold to above the u64 range, the subnormal and the
\* all-ones exponents, and for each the mantissa fields k * 2^s around the
\* shift at which k * 2^s seconds is a whole number of half nanoseconds,
\* the fields of all ones, of alternating bits (0101.. and 0011..), and the
\* negative of some.

\* The largest multiplier k of the mantissa fields k * 2^s.
MaxK == 3

ExpFamily(bias) == {0, 1} \cup ((bias - 33)..(bias + 65)) \cup {2 * bias, 2 * bias + 1}

\* 10^9 = 2^9 * 5^9: the bits of a field below position mant_bits - 10 - exp
\* are worth less than half a nanosecond each.
MantFamily(exp, mant_bits) ==
    {Big(0), BOnes(mant_bits), BSub(BOnes(mant_bits), Big(1)),
     BDiv(BOnes(mant_bits), Big(3)), BDiv(BOnes(mant_bits), Big(5))}
    \cup {BShl(Big(k), sh) :
            k \in 1..MaxK,
            sh \in {x \in {0, mant_bits - 11 - exp, mant_bits - 10 - exp,
                           mant_bits - 9 - exp, mant_bits - 3} :
                      x >= 0 /\ x <= mant_bits - 3}}

F64Family ==
    UNION {{F64(0, e, m) : m \in MantFamily(e - 1023, 52)} : e \in ExpFamily(1023)}
    \cup {F64(1, e, m) : e \in ExpFamily(1023), m \in {Big(0), Big(1)}}

F32Family ==
    UNION {{F32(0, e, m) : m \in MantFamily(e - 127, 23)} : e \in ExpFamily(127)}
    \cup {F32(1, e, m) : e \in ExpFamily(127), m \in {Big(0), Big(1)}}

FloatCalls ==
    {Call0("from_secs_f64", b, Big(0)) : b \in F64Family}
    \cup {Call0("from_secs_f32", b, Big(0)) : b \in F32Family}

InitFloat ==
    /\ pc = "call"
    /\ cur = [kind |-> "Duration", val |-> None]
    /\ op \in FloatCalls
    /\ panic = FALSE
    /\ steps = 0
    /\ NoThreads

NextFloat == FromSecsF64 \/ FromSecsF32

SpecFloat == InitFloat /\ [][NextFloat]_vars

\* ------------------------------------------------------------------------
\* The overflow loop of the tests: maybe_t is a reading of Instant::now() or
\* SystemTime::UNIX_EPOCH, and max_duration = Duration::from_secs(u64::MAX)
\* is added to it at most MaxAdds times.  A reading is any Timespec the
\* host may hold: tv_sec from i64::MIN, from -MaxClock and from 0 on, for
\* MaxClock seconds, and i64::MAX.

\* The additions of max_duration to maybe_t.
MaxAdds == 3

\* The seconds past each base that the clock readings span.
MaxClock == 9

ClockReadings ==
    {Timespec(BAdd(base, Big(k)), nanos) :
        base \in {Big(0), BSub(BPow2(63), Big(MaxClock)), BPow2(63)},
        k \in 0..MaxClock,
        nanos \in {0, 5, NANOS_PER_SEC - 1}}
    \cup {Timespec(U64_MAX, nanos) : nanos \in {0, NANOS_PER_SEC - 1}}

max_duration == Duration_from_secs(U64_MAX)

InitOverflow ==
    /\ pc = "value"
    /\ \/ /\ cur \in {[kind |-> "Instant", val |-> Some(t)] : t \in ClockReadings}
          /\ op = Call0("Instant::now", Big(0), Big(0))
       \/ /\ cur = [kind |-> "SystemTime", val |-> SystemTime_UNIX_EPOCH]
          /\ op = Call0("SystemTime::UNIX_EPOCH", Big(0), Big(0))
    /\ panic = FALSE
    /\ steps = 0
    /\ NoThreads

\* maybe_t += max_duration
AddAssign(name, kind, out) ==
    /\ pc = "value"
    /\ ~panic
    /\ steps < MaxAdds
    /\ cur.kind = kind
    /\ cur' = [kind |-> kind, val |-> out]
    /\ op' = [name |-> name, args |-> <<cur.val, max_duration>>, n |-> Big(0),
              m |-> Big(0)]
    /\ steps' = steps + 1
    /\ UNCHANGED <<pc, panic, clock, thread>>

InstantAddAssign ==
    AddAssign("Instant::add_assign", "Instant",
              Instant_add_assign(cur.val, max_duration))

SystemTimeAddAssign ==
    AddAssign("SystemTime::add_assign", "SystemTime",
              SystemTime_add_assign(cur.val, max_duration))

NextOverflow == InstantAddAssign \/ SystemTimeAddAssign

SpecOverflow == InitOverflow /\ [][NextOverflow]_vars

\* ------------------------------------------------------------------------
\* The monotonicity tests: each thread runs
\*     let mut old = Instant::now();
\*     loop { let new = Instant::now(); assert!(new >= old); old = new; }
\* against a host clock that never goes back.  The threads share nothing
\* but the clock.

\* The ticks the host clock advances.
MaxTicks == 3

\* The host's reading at a tick: strictly increasing in the tick, across a
\* second's boundary.
ClockReading(k) ==
    Timespec(BAdd(BPow2(63), Big(1000 + (k \div 2))),
             IF k % 2 = 0 THEN 5 ELSE NANOS_PER_SEC - 1)

InitClock ==
    /\ pc = "threads"
    /\ cur = [kind |-> "Instant", val |-> None]
    /\ op = Call0("Instant::now", Big(0), Big(0))
    /\ panic = FALSE
    /\ steps = 0
    /\ clock \in 0..1
    /\ thread = [t \in Threads |-> [pc |-> "start", old |-> None, new |-> None]]

\* The host clock advances.
Tick ==
    /\ clock < MaxTicks
    /\ clock' = clock + 1
    /\ UNCHANGED <<pc, cur, op, panic, steps, thread>>

\* let mut old = Instant::now();
NowOld(t) ==
    /\ thread[t].pc = "start"
    /\ thread' = [thread EXCEPT ![t] = [pc |-> "loop",
                                        old |-> Instant_now(ClockReading(clock)),
                                        new |-> None]]
    /\ UNCHANGED <<pc, cur, op, panic, steps, clock>>

\* let new = Instant::now();
NowNew(t) ==
    /\ thread[t].pc = "loop"
    /\ ~panic
    /\ thread' = [thread EXCEPT ![t].pc = "assert",
                                ![t].new = Instant_now(ClockReading(clock))]
    /\ UNCHANGED <<pc, cur, op, panic, steps, clock>>

\* assert!(new >= old); old = new;
AssertGe(t) ==
    /\ thread[t].pc = "assert"
    /\ panic' = ~ge(Instant_partial_cmp(thread[t].new, thread[t].old))
    /\ thread' = [thread EXCEPT ![t].pc = "loop", ![t].old = thread[t].new]
    /\ UNCHANGED <<pc, cur, op, steps, clock>>

NextClock ==
    \/ Tick
    \/ \E t \in Threads : NowOld(t) \/ NowNew(t) \/ AssertGe(t)

SpecClock == InitClock /\ [][NextClock]_vars

\* ------------------------------------------------------------------------
\* The arithmetic of the tests, run as straight-line programs over locals:
\* the inputs are the first locals, each statement calls one operator of
\* the crate on two locals and binds the result to a new local, and a
\* compound assignment stores it in its left operand.

MathInstants ==
    {Some(Timespec(BAdd(BPow2(63), Big(1000)), 5)),
     Some(Timespec(BAdd(BPow2(63), Big(1000)), NANOS_PER_SEC - 1)),
     Some(Timespec(BAdd(BPow2(63), Big(1001)), 5)),
     Some(Timespec(Big(0), 0)),
     Some(Timespec(U64_MAX, NANOS_PER_SEC - 1))}

MathSystemTimes ==
    {SystemTime_UNIX_EPOCH,
     Some(Timespec(BAdd(BPow2(63), Big(1700000000)), 5)),
     Some(Timespec(BAdd(BPow2(63), Big(1700000000)), NANOS_PER_SEC - 1)),
     Some(Timespec(BSub(BPow2(63), Big(1)), 500000000)),
     Some(Timespec(Big(0), 0)),
     Some(Timespec(U64_MAX, NANOS_PER_SEC - 1))}

MathDurations ==
    {Duration_NONE, Duration_ZERO, Duration_from_millis(Big(5)),
     Duration_new(Big(0), Big(500000000)).val, Duration_new(Big(1), Big(0)).val,
     Duration_from_secs(U64_MAX), Duration_MAX}

AssignOps ==
    {"Duration::add_assign", "Duration::sub_assign", "Duration::mul_assign",
     "Duration::div_assign", "Instant::add_assign", "Instant::sub_assign",
     "SystemTime::add_assign", "SystemTime::sub_assign"}

\* The statements <<operator, left local, right local>> of each program.
Programs(name) ==
    CASE name = "instant_math" ->
            \* a, b; dur = b.duration_since(a); b - dur; a + dur
            << <<"Instant::duration_since", 2, 1>>, <<"Instant::sub", 2, 3>>,
               <<"Instant::add", 1, 3>> >>
      [] name = "instant_sub_add" ->
            \* a, second; a - second + second
            << <<"Instant::sub", 1, 2>>, <<"Instant::add", 3, 2>> >>
      [] name = "system_time_sub_add" ->
            << <<"SystemTime::sub", 1, 2>>, <<"SystemTime::add", 3, 2>> >>
      [] name = "instant_math_is_associative" ->
            \* now, offset; (now + offset) - now; (now - now) + offset
            << <<"Instant::add", 1, 2>>, <<"Instant::sub_Instant", 3, 1>>,
               <<"Instant::sub_Instant", 1, 1>>, <<"Duration::add", 5, 2>> >>
      [] name = "system_time_add_add" ->
            \* t, a, b; (t + a) + b; t + (a + b)
            << <<"SystemTime::add", 1, 2>>, <<"SystemTime::add", 4, 3>>,
               <<"Duration::add", 2, 3>>, <<"SystemTime::add", 1, 6>> >>
      [] name = "since_epoch" ->
            \* ts, UNIX_EPOCH, second; a = ts.duration_since(UNIX_EPOCH);
            \* b = ts.duration_since(UNIX_EPOCH - second); b - a
            << <<"SystemTime::duration_since", 1, 2>>, <<"SystemTime::sub", 2, 3>>,
               <<"SystemTime::duration_since", 1, 5>>, <<"Duration::sub", 6, 4>> >>
      [] name \in AssignOps -> << <<name, 1, 2>> >>

\* The inputs each program is run on.
MathInputs(name) ==
    CASE name = "instant_math" ->
            {<<a, b>> : a \in MathInstants, b \in MathInstants}
      [] name \in {"instant_sub_add", "instant_math_is_associative",
                   "Instant::add_assign", "Instant::sub_assign"} ->
            {<<a, d>> : a \in MathInstants, d \in MathDurations}
      [] name \in {"system_time_sub_add", "SystemTime::add_assign",
                   "SystemTime::sub_assign"} ->
            {<<a, d>> : a \in MathSystemTimes, d \in MathDurations}
      [] name = "system_time_add_add" ->
            {<<t, a, b>> : t \in MathSystemTimes, a \in MathDurations,
                           b \in MathDurations}
      [] name = "since_epoch" ->
            {<<ts, SystemTime_UNIX_EPOCH, Duration_new(Big(1), Big(0)).val>> :
                ts \in MathSystemTimes}
      [] name \in {"Duration::add_assign", "Duration::sub_assign"} ->
            {<<a, b>> : a \in MathDurations, b \in MathDurations}
      [] name \in {"Duration::mul_assign", "Duration::div_assign"} ->
            {<<a, n>> : a \in MathDurations, n \in U32Pool}

ProgramNames ==
    {"instant_math", "instant_sub_add", "system_time_sub_add",
     "instant_math_is_associative", "system_time_add_add", "since_epoch"}
    \cup AssignOps

\* The operator of the crate a statement calls.
Operator(f, lhs, rhs) ==
    CASE f = "Duration::add" -> Duration_add(lhs, rhs)
      [] f = "Duration::sub" -> Duration_sub(lhs, rhs)
      [] f = "Instant::add" -> Instant_add(lhs, rhs)
      [] f = "Instant::sub" -> Instant_sub(lhs, rhs)
      [] f = "Instant::duration_since" -> Instant_duration_since(lhs, rhs)
      [] f = "Instant::sub_Instant" -> Instant_sub_Instant(lhs, rhs)
      [] f = "SystemTime::add" -> SystemTime_add(lhs, rhs)
      [] f = "SystemTime::sub" -> SystemTime_sub(lhs, rhs)
      [] f = "SystemTime::duration_since" -> SystemTime_duration_since(lhs, rhs)
      [] f = "Duration::add_assign" -> Duration_add_assign(lhs, rhs)
      [] f = "Duration::sub_assign" -> Duration_sub_assign(lhs, rhs)
      [] f = "Duration::mul_assign" -> Duration_mul_assign(lhs, rhs)
      [] f = "Duration::div_assign" -> Duration_div_assign(lhs, rhs)
      [] f = "Instant::add_assign" -> Instant_add_assign(lhs, rhs)
      [] f = "Instant::sub_assign" -> Instant_sub_assign(lhs, rhs)
      [] f = "SystemTime::add_assign" -> SystemTime_add_assign(lhs, rhs)
      [] f = "SystemTime::sub_assign" -> SystemTime_sub_assign(lhs, rhs)

\* cur.val holds the locals, op the program and its inputs, steps the
\* statements executed.
InitMath ==
    /\ pc = "math"
    /\ \E name \in ProgramNames : \E inputs \in MathInputs(name) :
        /\ op = [name |-> name, args |-> inputs, n |-> Big(0), m |-> Big(0)]
        /\ cur = [kind |-> "locals", val |-> inputs]
    /\ panic = FALSE
    /\ steps = 0
    /\ NoThreads

Statement == Programs(op.name)[steps + 1]

\* let local = lhs op rhs;
MathLet ==
    /\ steps < Len(Programs(op.name))
    /\ Statement[1] \notin AssignOps
    /\ cur' = [cur EXCEPT !.val =
                Append(@, Operator(Statement[1], @[Statement[2]], @[Statement[3]]))]
    /\ steps' = steps + 1
    /\ UNCHANGED <<pc, op, panic, clock, thread>>

\* lhs op= rhs;
MathAssign ==
    /\ steps < Len(Programs(op.name))
    /\ Statement[1] \in AssignOps
    /\ cur' = [cur EXCEPT !.val[Statement[2]] =
                Operator(Statement[1], cur.val[Statement[2]], cur.val[Statement[3]])]
    /\ steps' = steps + 1
    /\ UNCHANGED <<pc, op, panic, clock, thread>>

NextMath == MathLet \/ MathAssign

SpecMath == InitMath /\ [][NextMath]_vars

\* ------------------------------------------------------------------------
\* Properties.  A Duration is measured by its total of nanoseconds.

Total(d) == BAdd(BMul(d.secs, Big(NANOS_PER_SEC)), Big(d.nanos))

\* The Duration of a total of nanoseconds.
OfTotal(n) == Dur(BDiv(n, Big(NANOS_PER_SEC)), ToInt(BRem(n, Big(NANOS_PER_SEC))))

MaxTotal == Total(time_Duration_MAX)

Returned_value == pc = "value"

ArithmeticNames ==
    {"add", "sub", "mul", "u32_mul", "div", "mul_f64", "mul_f32", "div_f64",
     "div_f32", "Instant::add", "Instant::sub", "Instant::duration_since",
     "Instant::sub_Instant", "SystemTime::add", "SystemTime::sub",
     "SystemTime::duration_since", "SystemTime::sub_SystemTime"}

DurationNames ==
    {"new", "from_secs", "from_millis", "from_micros", "from_nanos",
     "from_secs_f64", "from_secs_f32", "add", "sub", "mul", "u32_mul", "div"}

\* C1: absence is absorbing.  Whenever an arithmetic operation of the three
\* wrappers has been applied and one of its wrapper operands was absent, the
\* result is absent.  The value computed so far is an operand of every
\* operation applied to it, so a chain of operations on an absent value
\* stays absent.
C1_AbsenceAbsorbing ==
    (/\ Returned_value
     /\ op.name \in ArithmeticNames
     /\ \E k \in DOMAIN op.args : op.args[k] = None)
    => cur.val = None

\* C1 witness: a present Duration plus an absent one has been computed, and
\* it is absent.
C1_Witness ==
    /\ Returned_value
    /\ op.name = "add"
    /\ IsSome(op.args[1])
    /\ op.args[2] = None
    /\ cur.val = None

\* C2: no Duration constructor or operator panics: new, from_secs,
\* from_millis, from_micros, from_nanos, from_secs_f64, from_secs_f32 (NaN,
\* the infinities, negatives and subnormals among the inputs), +, -, * u32
\* and / u32 (a zero divisor and overflowing operands among them) return.
C2_NoPanic == op.name \in DurationNames => ~panic

\* C2 witness: a present Duration has been divided by zero; the call
\* returned, and returned an absent Duration.
C2_Witness ==
    /\ Returned_value
    /\ op.name = "div"
    /\ IsSome(op.args[1])
    /\ op.n = Big(0)
    /\ ~panic
    /\ cur.val = None

\* C3: for present a and b, a + b is the exact sum when the sum does not
\* exceed Duration::MAX and is absent otherwise; a - b is the exact
\* difference when a >= b and is absent otherwise.
C3_CheckedAddSub ==
    (/\ Returned_value
     /\ op.name \in {"add", "sub"}
     /\ IsSome(op.args[1])
     /\ IsSome(op.args[2]))
    => LET a == Total(op.args[1][1])
           b == Total(op.args[2][1])
       IN  IF op.name = "add"
           THEN IF BLe(BAdd(a, b), MaxTotal)
                THEN cur.val = Some(OfTotal(BAdd(a, b)))
                ELSE cur.val = None
           ELSE IF BLe(b, a)
                THEN cur.val = Some(OfTotal(BSub(a, b)))
                ELSE cur.val = None

\* C3 witness: new(1, 0) + new(u64::MAX, 0) has been computed and is absent.
C3_Witness ==
    /\ Returned_value
    /\ op.name = "add"
    /\ op.args = <<Some(Dur(Big(1), 0)), Some(Dur(U64_MAX, 0))>>
    /\ cur.val = None

\* C4: for a present d and a u32 n, d * n and n * d are the exact product of
\* the total nanoseconds of d by n when the product does not exceed
\* Duration::MAX, and are absent otherwise.
C4_CheckedMul ==
    (/\ Returned_value
     /\ op.name \in {"mul", "u32_mul"}
     /\ IsSome(op.args[1]))
    => LET product == BMul(Total(op.args[1][1]), op.n)
       IN  IF BLe(product, MaxTotal)
           THEN cur.val = Some(OfTotal(product))
           ELSE cur.val = None

\* C4 witness: new(0, 500_000_001) * 4 has been computed and is new(2, 4).
C4_Witness ==
    /\ Returned_value
    /\ op.name = "mul"
    /\ op.args = <<Some(Dur(Big(0), 500000001))>>
    /\ op.n = Big(4)
    /\ cur.val = Some(Dur(Big(2), 4))

\* C5: for a present d and a u32 n, d / n is absent when n = 0, without a
\* panic, and is the floor of the total nanoseconds of d over n otherwise.
C5_CheckedDiv ==
    (/\ Returned_value
     /\ op.name = "div"
     /\ IsSome(op.args[1]))
    => /\ ~panic
       /\ IF op.n = Big(0)
          THEN cur.val = None
          ELSE cur.val = Some(OfTotal(BDiv(Total(op.args[1][1]), op.n)))

\* C5 witness: new(1, 1) / 3 has been computed and is new(0, 333_333_333).
C5_Witness ==
    /\ Returned_value
    /\ op.name = "div"
    /\ op.args = <<Some(Dur(Big(1), 1))>>
    /\ op.n = Big(3)
    /\ cur.val = Some(Dur(Big(0), 333333333))

\* C6: Duration::new(secs, nanos) is present with as_secs = secs +
\* floor(nanos / 10^9) and subsec_nanos = nanos mod 10^9 when that number of
\* seconds fits in a u64, and is absent otherwise; new(u64::MAX,
\* 999_999_999) is Duration::MAX and new(u64::MAX, 1_000_000_000) is absent.
C6_NewNormalizes ==
    (Returned_value /\ op.name = "new")
    => LET secs == BAdd(op.n, BDiv(op.m, Big(NANOS_PER_SEC)))
       IN  /\ IF BLe(secs, U64_MAX)
              THEN /\ Duration_as_secs(cur.val) = Some(secs)
                   /\ Duration_subsec_nanos(cur.val)
                        = Some(ToInt(BRem(op.m, Big(NANOS_PER_SEC))))
              ELSE cur.val = None
           /\ (op.n = U64_MAX /\ op.m = Big(NANOS_PER_SEC - 1))
                => cur.val = Duration_MAX
           /\ (op.n = U64_MAX /\ op.m = Big(NANOS_PER_SEC)) => cur.val = None

\* C6 witness: new(u64::MAX, 999_999_999) has returned Duration::MAX.
C6_Witness ==
    /\ Returned_value
    /\ op.name = "new"
    /\ op.n = U64_MAX
    /\ op.m = Big(NANOS_PER_SEC - 1)
    /\ cur.val = Some(Dur(U64_MAX, 999999999))

\* C7: every Duration computed by constructors and operators, when present,
\* has subsec_nanos below 10^9 and seconds that fit in a u64, and absence
\* is total: as_secs is None iff subsec_nanos is None iff is_none.
C7_Representation ==
    (Returned_value /\ IsDuration)
    => /\ IsSome(cur.val)
            => /\ cur.val[1].nanos \in 0..(NANOS_PER_SEC - 1)
               /\ BLe(cur.val[1].secs, U64_MAX)
       /\ Duration_as_secs(cur.val) = None <=> Duration_subsec_nanos(cur.val) = None
       /\ Duration_subsec_nanos(cur.val) = None <=> Duration_is_none(cur.val)

\* C7 witness: a subtraction has returned a present Duration of no whole
\* second whose nanoseconds are the largest allowed.
C7_Witness ==
    /\ Returned_value
    /\ IsDuration
    /\ steps > 0
    /\ op.name = "sub"
    /\ IsSome(cur.val)
    /\ cur.val[1].nanos = NANOS_PER_SEC - 1
    /\ Duration_as_secs(cur.val) = Some(Big(0))

\* ------------------------------------------------------------------------
\* Properties of the conversion.  The float of a call is read from its bit
\* pattern: M mantissa bits, sign, biased exponent e (top when all ones),
\* mantissa field m, and for a normal float the unbiased exponent exp and
\* the mantissa mant with its leading one, the value being mant * 2^(exp - M).

Float(name, bits) ==
    LET M == IF name = "from_secs_f64" THEN 52 ELSE 23
        E == IF name = "from_secs_f64" THEN 11 ELSE 8
    IN  [M    |-> M,
         sign |-> Bit(bits, M + E),
         e    |-> ToInt(BLow(BShr(bits, M), E)),
         top  |-> 2^E - 1,
         m    |-> BLow(bits, M),
         exp  |-> ToInt(BLow(BShr(bits, M), E)) - (2^(E - 1) - 1),
         mant |-> BAdd(BPow2(M), BLow(bits, M))]

FloatCall == Returned_value /\ op.name \in {"from_secs_f64", "from_secs_f32"}

Input == Float(op.name, op.n)

IsZeroFloat(f) == f.e = 0 /\ f.m = Big(0)

IsNaNFloat(f) == f.e = f.top /\ f.m # Big(0)

IsInfinite(f) == f.e = f.top /\ f.m = Big(0)

IsNegative(f) == f.sign = 1 /\ ~IsNaNFloat(f) /\ ~IsZeroFloat(f)

\* Finite, not below zero, and below 2^64.
IsInRange(f) == f.e < f.top /\ (f.sign = 0 \/ IsZeroFloat(f)) /\ f.exp < 64

AbsDiff(a, b) == IF BLe(a, b) THEN BSub(b, a) ELSE BSub(a, b)

\* C8: from_secs_f64 and from_secs_f32 return, without a panic, the zero
\* Duration for 0.0 (of either sign), an absent Duration for every input
\* below zero, for NaN, for the infinities and for every finite input of
\* at least 2^64 seconds, and a present Duration for every other input.
C8_FloatRejection ==
    FloatCall
    => /\ ~panic
       /\ IsZeroFloat(Input) => cur.val = Duration_ZERO
       /\ IsNegative(Input) => cur.val = None
       /\ IsNaNFloat(Input) => cur.val = None
       /\ IsInfinite(Input) => cur.val = None
       /\ (Input.e < Input.top /\ Input.exp >= 64) => cur.val = None
       /\ IsInRange(Input) => IsSome(cur.val)

\* C8 witness: from_secs_f64(2^64) has returned an absent Duration.
C8_Witness ==
    /\ FloatCall
    /\ op.name = "from_secs_f64"
    /\ op.n = F64(0, 1023 + 64, Big(0))
    /\ ~panic
    /\ cur.val = None

\* C9: for a finite input v >= 0 below 2^64 the total nanoseconds N of the
\* result is an integer nearest to v * 10^9.  With v = mant / 2^sh, sh = M -
\* exp: when sh <= 0 the result is mant * 2^(-sh) seconds and no
\* nanoseconds; otherwise 2 * |N * 2^sh - mant * 10^9| <= 2^sh, which for sh
\* above M + 32 is checked against the smaller 2^(M + 32).  N is 0 for 0.0
\* and for the subnormals, all below 2^-126.
C9_CorrectRounding ==
    (FloatCall /\ IsInRange(Input))
    => /\ IsSome(cur.val)
       /\ LET f  == Input
              N  == Total(cur.val[1])
              sh == Min(f.M - f.exp, f.M + 32)
              x  == BMul(f.mant, Big(NANOS_PER_SEC))
          IN  IF f.e = 0 THEN N = Big(0)
              ELSE IF sh <= 0
                   THEN cur.val = Some(Dur(BShl(f.mant, f.exp - f.M), 0))
                   ELSE BLe(BShl(AbsDiff(BShl(N, sh), x), 1), BPow2(sh))

\* C9 witness: the largest f64 below 1.0 has been converted, and rounded up
\* to one second.
C9_Witness ==
    /\ FloatCall
    /\ op.name = "from_secs_f64"
    /\ op.n = F64(0, 1022, BOnes(52))
    /\ cur.val = Some(Dur(Big(1), 0))

\* C10: when v * 10^9 lies halfway between two integers (the bits of mant *
\* 10^9 below sh are exactly 2^(sh - 1)), the total nanoseconds returned is
\* the even one: the candidate floor(v * 10^9) when it is even, and the
\* candidate plus one when it is odd.
C10_TiesToEven ==
    (/\ FloatCall
     /\ IsInRange(Input)
     /\ Input.e > 0
     /\ Input.M - Input.exp \in 1..(Input.M + 10)
     /\ BLow(BMul(Input.mant, Big(NANOS_PER_SEC)), Input.M - Input.exp)
            = BPow2(Input.M - Input.exp - 1))
    => LET candidate == BShr(BMul(Input.mant, Big(NANOS_PER_SEC)),
                             Input.M - Input.exp)
       IN  /\ IsSome(cur.val)
           /\ Bit(Total(cur.val[1]), 0) = 0
           /\ Total(cur.val[1]) = IF Bit(candidate, 0) = 0 THEN candidate
                                  ELSE BAdd(candidate, Big(1))

\* C10 witness: 1 + 3/1024 seconds, 1_002_929_687.5 ns, has been converted;
\* the candidate was odd and the result is 1 s 2_929_688 ns.
C10_Witness ==
    /\ FloatCall
    /\ op.name = "from_secs_f64"
    /\ op.n = F64(0, 1023, BShl(Big(3), 42))
    /\ cur.val = Some(Dur(Big(1), 2929688))

\* C11: in from_secs_f64, when the fraction of the input rounds to 10^9
\* nanoseconds (frac * 10^9 / 2^sh is at least 999_999_999.5, frac being
\* the bits of mant below sh = M - exp), the result is the whole seconds
\* plus one and no nanoseconds: (1, 0) for an input below one second.
C11_NanosCarry ==
    (/\ FloatCall
     /\ op.name = "from_secs_f64"
     /\ IsInRange(Input)
     /\ Input.e > 0
     /\ Input.M - Input.exp \in 1..(Input.M + 31)
     /\ BLe(BMul(Big(2 * NANOS_PER_SEC - 1), BPow2(Input.M - Input.exp)),
            BMul(BShl(BLow(Input.mant, Input.M - Input.exp), 1),
                 Big(NANOS_PER_SEC))))
    => cur.val = Some(Dur(BAdd(BShr(Input.mant, Input.M - Input.exp), Big(1)), 0))

\* C11 witness: the largest f64 below 4.0 has been converted, its fraction
\* rounded to 10^9 ns and carried: the result is 4 s and 0 ns.
C11_Witness ==
    /\ FloatCall
    /\ op.name = "from_secs_f64"
    /\ op.n = F64(0, 1023 + 1, BOnes(52))
    /\ cur.val = Some(Dur(Big(4), 0))

\* C12: two absent Durations compare equal, and an absent Duration compares
\* unequal to every present Duration and to every time::Duration, in both
\* operand orders.
C12_AbsentEquality ==
    (Returned_value /\ op.name \in {"eq", "eq_raw", "raw_eq"})
    => /\ (op.args[1] = None /\ op.args[2] = None) => cur.val = Some(TRUE)
       /\ ((op.args[1] = None) # (op.args[2] = None)) => cur.val = Some(FALSE)

\* C12 witness: a time::Duration has been compared with an absent Duration
\* (raw == wrapper), and they are unequal.
C12_Witness ==
    /\ Returned_value
    /\ op.name = "raw_eq"
    /\ op.args[2] = None
    /\ cur.val = Some(FALSE)

C14_ClampToZero ==
    (/\ Returned_value
     /\ op.name \in {"Instant::duration_since", "Instant::sub_Instant"}
     /\ IsSome(op.args[1])
     /\ IsSome(op.args[2]))
    => LET a == Total(op.args[1][1])
           b == Total(op.args[2][1])
       IN  IF BLt(a, b) THEN cur.val = Duration_ZERO
           ELSE cur.val = Some(OfTotal(BSub(a, b)))

\* C15: for present SystemTimes a and b, a.duration_since(b) and a - b are
\* absent when b is later than a, and the exact difference otherwise.
C15_SystemTimeFallible ==
    (/\ Returned_value
     /\ op.name \in {"SystemTime::duration_since", "SystemTime::sub_SystemTime"}
     /\ IsSome(op.args[1])
     /\ IsSome(op.args[2]))
    => LET a == Total(op.args[1][1])
           b == Total(op.args[2][1])
       IN  IF BLt(a, b) THEN cur.val = None
           ELSE cur.val = Some(OfTotal(BSub(a, b)))

\* C15 witness: a.duration_since(a + 1 s) has been computed for a present
\* a, and is absent.
C15_Witness ==
    /\ Returned_value
    /\ op.name = "SystemTime::duration_since"
    /\ IsSome(op.args[1])
    /\ op.args[2] = Some(Timespec(BAdd(op.args[1][1].secs, Big(1)),
                                  op.args[1][1].nanos))
    /\ cur.val = None

\* C16: when Duration::from_secs(u64::MAX) is added again and again to a
\* reading of Instant::now() or to SystemTime::UNIX_EPOCH, no addition
\* panics, the value is absent after two additions at the latest, and an
\* absent value stays absent under every further addition.
C16_OverflowAbsent ==
    /\ ~panic
    /\ steps >= 2 => cur.val = None
    /\ (steps >= 1 /\ op.args[1] = None) => cur.val = None

\* C16 witness: a reading at the least tv_sec has survived one addition and
\* is absent after the second.
C16_Witness ==
    /\ steps = 2
    /\ op.name = "Instant::add_assign"
    /\ IsSome(op.args[1])
    /\ cur.val = None

\* C17: in every interleaving of the threads' calls of Instant::now() with
\* the ticks of a host clock that never goes back, every Instant returned
\* is present, no assertion fails, and each thread's new reading compares
\* >= the reading it took before.
C17_MonotonicPerThread ==
    /\ ~panic
    /\ \A t \in Threads :
        /\ thread[t].pc \in {"loop", "assert"} => IsSome(thread[t].old)
        /\ thread[t].pc = "assert" =>
            /\ IsSome(thread[t].new)
            /\ ge(Instant_partial_cmp(thread[t].new, thread[t].old))

\* C17 witness: a thread holds a reading a second later than its previous
\* one, with a smaller sub-second part, while another thread still holds a
\* reading from before the clock advanced.
C17_Witness ==
    \E t, u \in Threads :
        /\ t # u
        /\ thread[t].pc = "assert"
        /\ IsSome(thread[t].old)
        /\ IsSome(thread[t].new)
        /\ BLt(thread[t].old[1].secs, thread[t].new[1].secs)
        /\ thread[t].new[1].nanos < thread[t].old[1].nanos
        /\ thread[u].pc = "assert"
        /\ thread[u].new = thread[t].old

C19_RoundTrip ==
    /\ (pc = "value" /\ steps = 0 /\ op.name = "Duration::from") =>
        /\ Duration_is_some(cur.val)
        /\ Duration_try_from(cur.val) = Ok(op.args[1])
    /\ (pc = "value" /\ steps = 0 /\ op.name = "Instant::from") =>
        /\ IsSome(cur.val)
        /\ Instant_try_from(cur.val) = Ok(op.args[1])
    /\ (pc = "value" /\ steps = 0 /\ op.name = "SystemTime::from") =>
        /\ IsSome(cur.val)
        /\ SystemTime_try_from(cur.val) = Ok(op.args[1])
    /\ (steps > 0 /\ op.name = "try_from" /\ IsSome(op.args[1])) =>
        /\ cur.val[1] = "Ok"
        /\ cur.kind = "Result<time::Duration>" =>
            Duration_eq(Duration_from(cur.val[2]), op.args[1])
        /\ cur.kind = "Result<time::Instant>" =>
            Instant_from(cur.val[2]) = op.args[1]
        /\ cur.kind = "Result<time::SystemTime>" =>
            SystemTime_from(cur.val[2]) = op.args[1]

\* C19 witness: Duration::from(time::Duration::MAX), whose try_from is
\* Ok(time::Duration::MAX).
C19_Witness ==
    /\ pc = "value"
    /\ steps = 0
    /\ op.name = "Duration::from"
    /\ op.args[1] = time_Duration_MAX
    /\ cur.val = Some(time_Duration_MAX)

\* C20: for every u64 x, from_secs(x), from_millis(x), from_micros(x) and
\* from_nanos(x) return without panicking a present Duration equal to
\* new(x, 0), new(x / 10^3, (x mod 10^3) * 10^6),
\* new(x / 10^6, (x mod 10^6) * 10^3) and new(x / 10^9, x mod 10^9);
\* from_millis(4000) == new(4, 0) and
\* from_millis(10) + from_secs(4) == new(4, 10_000_000).
C20_SingleUnitExact ==
    /\ (pc = "value" /\ steps = 0
            /\ op.name \in {"from_secs", "from_millis", "from_micros", "from_nanos"}) =>
        LET x == op.n
            expected ==
                CASE op.name = "from_secs" -> Duration_new(x, Big(0))
                  [] op.name = "from_millis" ->
                        Duration_new(BDiv(x, Big(1000)),
                                     BMul(BRem(x, Big(1000)), Big(1000000)))
                  [] op.name = "from_micros" ->
                        Duration_new(BDiv(x, Big(1000000)),
                                     BMul(BRem(x, Big(1000000)), Big(1000)))
                  [] op.name = "from_nanos" ->
                        Duration_new(BDiv(x, Big(NANOS_PER_SEC)),
                                     BRem(x, Big(NANOS_PER_SEC)))
        IN  /\ ~panic
            /\ Duration_is_some(cur.val)
            /\ ~expected.panic
            /\ Duration_eq(cur.val, expected.val)
    /\ (pc = "value" /\ steps = 0 /\ op.name = "from_millis" /\ op.n = Big(4000)) =>
        Duration_eq(cur.val, Duration_new(Big(4), Big(0)).val)
    /\ (steps > 0 /\ op.name = "add"
            /\ op.args = <<Duration_from_millis(Big(10)), Duration_from_secs(Big(4))>>) =>
        Duration_eq(cur.val, Duration_new(Big(4), Big(10000000)).val)

\* C20 witness: from_millis(10) + from_secs(4) has been computed, 4 s and
\* 10_000_000 ns.
C20_Witness ==
    /\ steps > 0
    /\ op.name = "add"
    /\ op.args = <<Duration_from_millis(Big(10)), Duration_from_secs(Big(4))>>
    /\ cur.val = Some(Dur(Big(4), 10000000))

\* The intermediate values of the float call of the state.
FloatSteps ==
    IF op.name = "from_secs_f64"
    THEN try_from_secs_steps(op.n, 52, 11, 44, 64, 128)
    ELSE try_from_secs_steps(op.n, 23, 8, 41, 32, 64)

\* C21: for every f32 input that is not below zero, with unbiased exponent
\* in [-31, 23), the rounded nanosecond count of try_from_secs is below
\* 1_000_000_000: time::Duration::new never receives 1_000_000_000 for it
\* and the Duration returned has the seconds and the rounded nanoseconds
\* as computed, no carry being due.
C21_NoCarryF32 ==
    (FloatCall /\ op.name = "from_secs_f32" /\ ~IsNegative(Input)
        /\ Input.exp >= -31 /\ Input.exp < 23) =>
        /\ ~panic
        /\ FloatSteps.branch \in {"sub", "frac"}
        /\ BLt(FloatSteps.nanos, Big(NANOS_PER_SEC))
        /\ cur.val = Some(Dur(FloatSteps.secs, ToInt(FloatSteps.nanos)))

\* C21 witness: the largest f32 below 1.0, 0x3F7FFFFF, converts to
\* 999_999_940 ns.
C21_Witness ==
    /\ FloatCall
    /\ op.name = "from_secs_f32"
    /\ op.n = F32(0, 126, BOnes(23))
    /\ cur.val = Some(Dur(Big(0), 999999940))

\* C22: the intermediate arithmetic of try_from_secs loses nothing, for the
\* f32 and the f64 parameters: every shift amount is at least 0 and below
\* the width of the shifted type; t holds every bit of mant << (offset + exp)
\* (of the fraction bits, in the branch from 1 second on); NANOS_PER_SEC * t
\* fits its type; the candidate nanos_tmp >> nanos_offset is at most
\* 999_999_999, so that the cast to u32 keeps it; and secs holds every bit
\* of mant << (exp - mant_bits) for exp < 64.
C22_LosslessIntermediates ==
    (FloatCall /\ ~IsNegative(Input)) =>
        /\ ~panic
        /\ \A sh \in FloatSteps.shifts : sh[1] >= 0 /\ sh[1] < sh[2]
        /\ FloatSteps.t = FloatSteps.t_exact
        /\ FloatSteps.nanos_tmp = FloatSteps.product_exact
        /\ BLt(FloatSteps.product_exact, BPow2(FloatSteps.product_ty))
        /\ BLe(FloatSteps.candidate, Big(NANOS_PER_SEC - 1))
        /\ FloatSteps.secs = FloatSteps.secs_exact
        /\ BLe(FloatSteps.secs_exact, U64_MAX)
        /\ FloatSteps.branch = "int" => Input.exp < 64

\* C22 witness: the largest f64 below 1.0 takes the largest shift of the
\* sub-second branch, a t of 96 bits and a product of 126 bits.
C22_Witness ==
    /\ FloatCall
    /\ op.name = "from_secs_f64"
    /\ op.n = F64(0, 1022, BOnes(52))
    /\ FloatSteps.branch = "sub"
    /\ BLe(BPow2(95), FloatSteps.t)
    /\ BLe(BPow2(125), FloatSteps.nanos_tmp)

\* C23: every f32 or f64 input that is not below zero and has a biased
\* exponent field of 0 (0.0 and the subnormals) or an unbiased exponent
\* below -31 converts, through the branch for exp < -31 and with the
\* implicit mantissa bit set, to the present zero Duration; and zero is the
\* correctly rounded result, the value being below half a nanosecond even
\* with the implicit bit counted (mant * 2^(-32 - M) * 10^9 < 1/2).
C23_TinyIsZero ==
    (FloatCall /\ ~IsNegative(Input) /\ Input.e < Input.top
        /\ (Input.e = 0 \/ Input.exp < -31)) =>
        /\ ~panic
        /\ FloatSteps.branch = "tiny"
        /\ cur.val = Duration_ZERO
        /\ Duration_is_some(cur.val)
        /\ BLt(BShl(BMul(Input.mant, Big(NANOS_PER_SEC)), 1),
               BPow2(Input.M + 32))

\* C23 witness: the largest f64 subnormal has been converted to zero.
C23_Witness ==
    /\ FloatCall
    /\ op.name = "from_secs_f64"
    /\ op.n = F64(0, 0, BOnes(52))
    /\ cur.val = Duration_ZERO

\* The locals of the program of the state, once it has run to its end.
Ran(name) == op.name = name /\ steps = Len(Programs(name))

Local(i) == cur.val[i]

Second == Duration_new(Big(1), Big(0)).val

\* C24 as stated: for present Instants a <= b and dur = b.duration_since(a),
\* b - dur == a and a + dur == b; and for every present Instant or
\* SystemTime a and d of 1 second, (a - d) + d == a.
C24_AddSubInverse ==
    /\ (Ran("instant_math") /\ le(Instant_partial_cmp(Local(1), Local(2)))) =>
        /\ Local(4) = Local(1)
        /\ Local(5) = Local(2)
    /\ ((Ran("instant_sub_add") \/ Ran("system_time_sub_add"))
            /\ IsSome(Local(1)) /\ Local(2) = Second) =>
        Local(4) = Local(1)

\* C24, amended: for present Instants a <= b and dur = b.duration_since(a),
\* b - dur == a and a + dur == b; and for a present Instant or SystemTime a
\* and d of 1 second, (a - d) + d == a when a - d is present, and is absent
\* when a - d is absent (a within a second of the earliest time).
C24_AddSubInverseWhenPresent ==
    /\ (Ran("instant_math") /\ le(Instant_partial_cmp(Local(1), Local(2)))) =>
        /\ IsSome(Local(3))
        /\ Local(4) = Local(1)
        /\ Local(5) = Local(2)
    /\ ((Ran("instant_sub_add") \/ Ran("system_time_sub_add"))
            /\ IsSome(Local(1)) /\ Local(2) = Second) =>
        IF IsSome(Local(3)) THEN Local(4) = Local(1) ELSE Local(4) = None

\* C24 witness: b - dur and a + dur have been computed for a and b 999_999_994
\* ns apart.
C24_Witness ==
    /\ Ran("instant_math")
    /\ Local(1) = Some(Timespec(BAdd(BPow2(63), Big(1000)), 5))
    /\ Local(2) = Some(Timespec(BAdd(BPow2(63), Big(1000)), NANOS_PER_SEC - 1))
    /\ Local(3) = Some(Dur(Big(0), NANOS_PER_SEC - 6))
    /\ Local(4) = Local(1)
    /\ Local(5) = Local(2)

\* C25: for a present Instant now and a present Duration offset whose sum
\* now + offset is present, (now + offset) - now == (now - now) + offset,
\* and both are offset.
C25_InstantMathOrder ==
    (Ran("instant_math_is_associative") /\ IsSome(Local(1)) /\ IsSome(Local(2))
        /\ IsSome(Local(3))) =>
        /\ Duration_eq(Local(4), Local(6))
        /\ Duration_eq(Local(4), Local(2))
        /\ Duration_eq(Local(6), Local(2))
        /\ Local(5) = Duration_ZERO

\* C25 witness: both sides have been computed for an offset of 5 ms that
\* carries into the seconds of now + offset.
C25_Witness ==
    /\ Ran("instant_math_is_associative")
    /\ Local(1) = Some(Timespec(BAdd(BPow2(63), Big(1000)), NANOS_PER_SEC - 1))
    /\ Local(2) = Duration_from_millis(Big(5))
    /\ Local(3) = Some(Timespec(BAdd(BPow2(63), Big(1001)), 4999999))
    /\ Local(4) = Duration_from_millis(Big(5))
    /\ Local(6) = Duration_from_millis(Big(5))

\* The binary operator a compound assignment stands for, applied.
Binary(f, a, b) ==
    CASE f = "Duration::add_assign" -> Duration_add(a, b)
      [] f = "Duration::sub_assign" -> Duration_sub(a, b)
      [] f = "Duration::mul_assign" -> Duration_mul(a, b)
      [] f = "Duration::div_assign" -> Duration_div(a, b)
      [] f = "Instant::add_assign" -> Instant_add(a, b)
      [] f = "Instant::sub_assign" -> Instant_sub(a, b)
      [] f = "SystemTime::add_assign" -> SystemTime_add(a, b)
      [] f = "SystemTime::sub_assign" -> SystemTime_sub(a, b)

\* C26: a statement `a op= b` (+=, -=, *=, /= of Duration; +=, -= of
\* Instant and SystemTime) leaves in a the value of (old a) op b, absent
\* when that is absent, and leaves b and the number of locals as they
\* were; a statement that binds the result of a binary operator to a new
\* local leaves every local there was, its operands included, unchanged.
C26_AssignIsSugar ==
    [][steps' = steps + 1 =>
        IF op.name \in AssignOps
        THEN /\ cur'.val = <<Binary(op.name, cur.val[1], cur.val[2]), cur.val[2]>>
             /\ op' = op
        ELSE /\ Len(cur'.val) = Len(cur.val) + 1
             /\ \A i \in 1..Len(cur.val) : cur'.val[i] = cur.val[i]
             /\ op' = op]_vars

\* C26 witness: after `a -= b` with a of 0 s and b of 1 s, a is absent and b
\* is 1 s.
C26_Witness ==
    /\ op.name = "Duration::sub_assign"
    /\ op.args = <<Duration_ZERO, Second>>
    /\ steps = 1
    /\ cur.val = <<Duration_NONE, Second>>

\* C27: for every present SystemTime t and Durations a and b, absent ones
\* included, (t + a) + b == t + (a + b): both absent or the same time;
\* UNIX_EPOCH + 1 s == UNIX_EPOCH + 0.5 s + 0.5 s; and for every ts at or
\* after the epoch, ts.duration_since(UNIX_EPOCH - 1 s) is greater than
\* ts.duration_since(UNIX_EPOCH) and their difference is 1 second.
C27_SystemTimeAddComposes ==
    /\ (Ran("system_time_add_add") /\ IsSome(Local(1))) =>
        /\ Local(5) = Local(7)
        /\ IsSome(Local(5)) <=> IsSome(Local(7))
    /\ (Ran("system_time_add_add") /\ Local(1) = SystemTime_UNIX_EPOCH
            /\ Local(2) = Duration_new(Big(0), Big(500000000)).val
            /\ Local(3) = Local(2)) =>
        Local(5) = SystemTime_add(SystemTime_UNIX_EPOCH, Second)
    /\ (Ran("since_epoch") /\ IsSome(Local(1))
            /\ time_Duration_cmp(Local(1)[1], time_SystemTime_UNIX_EPOCH) # "Less") =>
        /\ IsSome(Local(4))
        /\ IsSome(Local(6))
        /\ gt(Duration_partial_cmp(Local(6), Local(4)))
        /\ Duration_eq(Local(7), Second)

\* C27 witness: ts.duration_since(UNIX_EPOCH - 1 s) - ts.duration_since(
\* UNIX_EPOCH) has been computed for the latest SystemTime.
C27_Witness ==
    /\ Ran("since_epoch")
    /\ Local(1) = Some(Timespec(U64_MAX, NANOS_PER_SEC - 1))
    /\ Local(4) = Some(Dur(BSub(BPow2(63), Big(1)), NANOS_PER_SEC - 1))
    /\ Local(6) = Some(Dur(BPow2(63), NANOS_PER_SEC - 1))
    /\ Local(7) = Second

\* The position of the highest bit set of a field m > 0 of at most 23 bits.
HighBit(m) == CHOOSE k \in 0..22 : BLe(BPow2(k), m) /\ BLt(m, BPow2(k + 1))

\* f64::from(x) for the f32 with bit pattern bits: the f64 of the same
\* value.  Zeros, infinities and NaNs keep their class, a subnormal f32 is
\* a normal f64.
Widened(bits) ==
    LET f == Float("from_secs_f32", bits)
    IN  IF f.e = 255 THEN F64(f.sign, 2047, BShl(f.m, 29))
        ELSE IF f.e = 0 /\ f.m = Big(0) THEN F64(f.sign, 0, Big(0))
        ELSE IF f.e = 0
             THEN LET k == HighBit(f.m)
                  IN  F64(f.sign, 1023 - 149 + k, BShl(BSub(f.m, BPow2(k)), 52 - k))
        ELSE F64(f.sign, f.e - 127 + 1023, BShl(f.m, 29))

\* C28: for every f32 bit pattern x, from_secs_f32(x) returns what
\* from_secs_f64 returns for the f64 of the same value, absent or the same
\* seconds and nanoseconds, and neither panics.
C28_WidthsAgree ==
    (FloatCall /\ op.name = "from_secs_f32") =>
        /\ ~panic
        /\ ~Duration_from_secs_f64(Widened(op.n)).panic
        /\ cur.val = Duration_from_secs_f64(Widened(op.n)).val

\* C28 witness: the f32 0x3FAAAAAA, 1.3333332538604736, has been converted
\* to 1 s 333_333_254 ns, as the f64 of the same value is.
C28_Witness ==
    /\ FloatCall
    /\ op.name = "from_secs_f32"
    /\ op.n = F32(0, 127, BDiv(BOnes(23), Big(3)))
    /\ cur.val = Some(Dur(Big(1), 333333254))
    /\ Widened(op.n) = F64(0, 1023, BShl(BDiv(BOnes(23), Big(3)), 29))

\* The conversion the call of the state applies, on another bit pattern.
Converted(bits) ==
    IF op.name = "from_secs_f64" THEN Duration_from_secs_f64(bits).val
    ELSE Duration_from_secs_f32(bits).val

\* The inputs not above the input of the state that it is compared with:
\* the float just below it, and every float of the family with its
\* exponent and a mantissa not above its own.  The float just below
\* (exponent, 0) is (exponent - 1, all ones), which the family holds, so
\* that the comparisons chain across the exponents.
NotAbove ==
    LET f == Input
    IN  (IF op.n = Big(0) THEN {} ELSE {BSub(op.n, Big(1))})
        \cup {IF op.name = "from_secs_f64" THEN F64(0, f.e, m) ELSE F32(0, f.e, m) :
                m \in {x \in MantFamily(f.exp, f.M) : BLe(x, f.m)}}

\* C29: for finite inputs 0 <= x <= y that both convert to a present
\* Duration, the Duration of x is at most the Duration of y, for
\* from_secs_f64 and from_secs_f32.
C29_Monotone ==
    (FloatCall /\ Input.sign = 0 /\ IsInRange(Input) /\ IsSome(cur.val)) =>
        \A x \in NotAbove :
            /\ BLe(x, op.n)
            /\ IsSome(Converted(x))
            /\ le(Duration_partial_cmp(Converted(x), cur.val))

\* C29 witness: 2^-31 s, the least input of the sub-second branch, has been
\* converted (to zero), the float just below it being of the branch below.
C29_Witness ==
    /\ FloatCall
    /\ op.name = "from_secs_f64"
    /\ op.n = F64(0, 1023 - 31, Big(0))
    /\ cur.val = Duration_ZERO
    /\ BSub(op.n, Big(1)) = F64(0, 1023 - 32, BOnes(52))
    /\ BSub(op.n, Big(1)) \in NotAbove

\* The ordering with its direction reversed: Ordering::reverse under Option.
Reversed(ordering) ==
    IF ordering = Some("Less") THEN Some("Greater")
    ELSE IF ordering = Some("Greater") THEN Some("Less")
    ELSE ordering

\* C30: for a Duration or Instant wrapper w and a primitive p, w == p iff
\* p == w; the ordering of p against w is the reverse of the ordering of w
\* against p (w < p iff p > w, w > p iff p < w, both absent when w is
\* absent); and when w is present holding q, w == p is q == p and the
\* ordering of w against p is that of q against p.
C30_MixedComparisons ==
    /\ (Returned_value /\ steps > 0 /\ op.name \in {"eq_raw", "Instant::eq_raw"}) =>
        LET w == op.args[1]
            q == op.args[2][1]
            back == IF op.name = "eq_raw" THEN raw_eq_Duration(q, w)
                    ELSE raw_eq_Instant(q, w)
        IN  /\ cur.val = Some(back)
            /\ IsSome(w) => cur.val = Some(time_Duration_eq(w[1], q))
    /\ (Returned_value /\ steps > 0 /\ op.name \in {"raw_eq", "Instant::raw_eq"}) =>
        LET w == op.args[2]
            q == op.args[1][1]
            back == IF op.name = "raw_eq" THEN Duration_eq_raw(w, q)
                    ELSE Instant_eq_raw(w, q)
        IN  /\ cur.val = Some(back)
            /\ IsSome(w) => cur.val = Some(time_Duration_eq(q, w[1]))
    /\ (Returned_value /\ steps > 0
            /\ op.name \in {"partial_cmp_raw", "Instant::partial_cmp_raw"}) =>
        LET w == op.args[1]
            q == op.args[2][1]
            back == IF op.name = "partial_cmp_raw" THEN raw_partial_cmp_Duration(q, w)
                    ELSE raw_partial_cmp_Instant(q, w)
        IN  /\ cur.val = Reversed(back)
            /\ lt(cur.val) <=> gt(back)
            /\ gt(cur.val) <=> lt(back)
            /\ ~(lt(cur.val) /\ lt(back)) /\ ~(gt(cur.val) /\ gt(back))
            /\ IsSome(w) => cur.val = Some(time_Duration_cmp(w[1], q))
            /\ ~IsSome(w) => cur.val = None /\ back = None
    /\ (Returned_value /\ steps > 0
            /\ op.name \in {"raw_partial_cmp", "Instant::raw_partial_cmp"}) =>
        LET w == op.args[2]
            q == op.args[1][1]
            back == IF op.name = "raw_partial_cmp" THEN Duration_partial_cmp_raw(w, q)
                    ELSE Instant_partial_cmp_raw(w, q)
        IN  /\ cur.val = Reversed(back)
            /\ lt(cur.val) <=> gt(back)
            /\ gt(cur.val) <=> lt(back)
            /\ IsSome(w) => cur.val = Some(time_Duration_cmp(q, w[1]))
            /\ ~IsSome(w) => cur.val = None /\ back = None

\* C30 witness: a time::Duration of 1 s has been compared with the zero
\* Duration, p.partial_cmp(w), and is the greater.
C30_Witness ==
    /\ Returned_value
    /\ op.name = "raw_partial_cmp"
    /\ op.args = <<Some(Dur(Big(1), 0)), Duration_ZERO>>
    /\ cur.val = Some("Greater")
    /\ Duration_partial_cmp_raw(op.args[2], op.args[1][1]) = Some("Less")
====
